---- MODULE Spec2Model ----
(***************************************************************************)
(* Workflow execution engine of the campaign agent: the step graph         *)
(* (src/src/agent/graph.py), the checkpoint tracker and the step bodies    *)
(* (src/src/agent/nodes.py), the router and the resumption resolver        *)
(* (src/src/agent/router.py), the hydration and the snapshot of the state  *)
(* (src/src/agent/state.py) and the CLI entry (src/cli.py).                *)
(*                                                                         *)
(* One project row of the durable store (db) and the AgentState of the     *)
(* running session (st) are the state.  A session is one run of            *)
(* run_command: a fresh AgentState, then the graph from its entry point.   *)
(* The process can be killed between any two steps; only db survives.      *)
(*                                                                         *)
(* The components the engine uses are modelled next to it, each with its   *)
(* own variable and its own specification: the retry wrapper and the       *)
(* persistence operations it decorates (rt, SpecRetry), the file cache     *)
(* behind analyze_files and insight (fc, SpecCache), and concurrent        *)
(* callers of append_to_array_field (ap, SpecAppend).                      *)
(***************************************************************************)
EXTENDS Naturals, Sequences, FiniteSets, TLC

VARIABLES
    st,     \* the AgentState of the current session (state.py AgentState)
    db,     \* the persisted projects row (what save_project last wrote)
    pc,     \* the scheduler's position: a graph node, or idle/END/aborted/killed
    phase,  \* "enter": the tracker has not yet marked the node as executing; "body"
    run,    \* history of the current session (what executed, what was loaded)
    rt,     \* one invocation of a function wrapped by retry (utils/retry.py)
    fc,     \* the uploaded_files table, the storage bucket and the session's
            \* file analysis and insight steps over its input files
    ap,     \* callers of append_to_array_field on one project row
    rs,     \* one call of get_resume_node: its arguments and what it returned
    ma,     \* a MetaAdsAPI client and the API call it is making
    ws,     \* one call of parallel_web_search and its two worker threads
    cf,     \* two flow instances working on the same project row
    lc      \* one call of the body of load_context_node: the row it finds, the
            \* state it is given and the state it returns

vars == <<st, db, pc, phase, run, rt, fc, ap, rs, ma, ws, cf, lc>>

\* The variables of the workflow engine, and those of the components it uses
engine == <<st, db, pc, phase, run>>
parts == <<rt, fc, ap, rs, ma, ws, cf, lc>>

\* Python's None
NONE == "none"

\* graph.py add_node: the names the graph registers
GraphNodes ==
    {"load_context", "analyze_files", "router", "discovery", "user_input",
     "data_collection", "insight", "campaign_setup", "reflection",
     "adjustment", "save"}

\* The nodes decorated with the nodes.py track_node (router_node is decorated
\* with the router.py track_node, which only reports progress)
CheckpointTracked == GraphNodes \ {"router"}

\* The values response.get("decision") can take: the four documented
\* decisions, any other string, or None
Decisions == {"initialize", "reflect", "enrich", "continue", "other", NONE}

\* The values current_phase takes in the code
Phases ==
    {"initialized", "data_collected", "strategy_built", "awaiting_results",
     "optimizing", "completed"}

FlowStatuses == {"not_started", "in_progress", "completed", "failed"}

\* node_name = func.__name__.replace('_node', ''): the node registered as
\* "save" is save_state_node, so the tracker calls it "save_state"
node_name(n) == IF n = "save" THEN "save_state" ELSE n

\* `x in list`
Contains(seq, x) == \E i \in 1..Len(seq) : seq[i] = x

\* create_initial_state
create_initial_state ==
    [decision |-> NONE,
     last_completed_node |-> NONE,
     completed_nodes |-> <<>>,
     flow_status |-> "not_started",
     current_executing_node |-> NONE,
     is_resuming |-> FALSE,
     force_restart |-> FALSE,
     project_loaded |-> FALSE,
     current_phase |-> "initialized",
     knowledge_facts |-> "empty",
     errors |-> <<>>]

\* The row create_project inserts (current_phase "initialized"); the flow
\* columns are not written by it and hold their column defaults
fresh_project ==
    [exists |-> TRUE,
     current_phase |-> "initialized",
     last_completed_node |-> NONE,
     completed_nodes |-> <<>>,
     flow_status |-> "not_started",
     current_executing_node |-> NONE,
     knowledge_facts |-> "empty"]

\* load_project_into_state: decision is not among the loaded fields
load_project_into_state(s, p) ==
    [s EXCEPT !.project_loaded = TRUE,
              !.current_phase = p.current_phase,
              !.last_completed_node = p.last_completed_node,
              !.completed_nodes = p.completed_nodes,
              !.flow_status = p.flow_status,
              !.current_executing_node = p.current_executing_node,
              !.knowledge_facts = p.knowledge_facts]

\* state_to_project_dict: decision, is_resuming, force_restart and errors
\* are not among the keys; knowledge_facts is a key only if requested
state_to_project_dict(s, include_knowledge_facts) ==
    LET project_dict ==
            [exists |-> TRUE,
             current_phase |-> s.current_phase,
             last_completed_node |-> s.last_completed_node,
             completed_nodes |-> s.completed_nodes,
             flow_status |-> s.flow_status,
             current_executing_node |-> s.current_executing_node]
    IN  IF include_knowledge_facts
        THEN [f \in DOMAIN project_dict \cup {"knowledge_facts"} |->
                 IF f = "knowledge_facts" THEN s.knowledge_facts
                 ELSE project_dict[f]]
        ELSE project_dict

\* save_project: an UPDATE of the row with the keys of project_data; the
\* other columns keep their values
save_project(row, project_data) ==
    [f \in DOMAIN row |->
        IF f \in DOMAIN project_data THEN project_data[f] ELSE row[f]]

\* The four checkpoint fields of a state or of a row
Checkpoint(r) ==
    [last_completed_node |-> r.last_completed_node,
     completed_nodes |-> r.completed_nodes,
     flow_status |-> r.flow_status,
     current_executing_node |-> r.current_executing_node]

\* track_node (nodes.py), before the body: lines 28-30
track_enter(s, name) ==
    [s EXCEPT !.current_executing_node = name,
              !.flow_status = "in_progress"]

\* A tracker that appends the step to the history without looking
track_success_always_appends(s, name) ==
    [s EXCEPT !.last_completed_node = name,
              !.completed_nodes = Append(s.completed_nodes, name),
              !.current_executing_node = NONE,
              !.flow_status =
                  IF name = "save_state" THEN "completed" ELSE s.flow_status]

\* A tracker that marks the flow completed after every step
track_success_completes_flow(s, name) ==
    [s EXCEPT !.last_completed_node = name,
              !.completed_nodes =
                  IF Contains(s.completed_nodes, name)
                  THEN s.completed_nodes
                  ELSE Append(s.completed_nodes, name),
              !.current_executing_node = NONE,
              !.flow_status = "completed"]

\* track_node (nodes.py), after the body returned: lines 39-50
track_success(s, name) ==
    [s EXCEPT !.last_completed_node = name,
              !.completed_nodes =
                  IF Contains(s.completed_nodes, name)
                  THEN s.completed_nodes
                  ELSE Append(s.completed_nodes, name),
              !.current_executing_node = NONE,
              !.flow_status =
                  IF name = "save_state" THEN "completed" ELSE s.flow_status]

\* The message track_node logs for a step that raised: "<name> failed: ..."
failed_message(name) == <<"failed", name>>

\* The message a step body logs for an exception it caught itself
\* ("File analysis error: ...", "Insight generation error: ...", ...)
body_error_message(n) == <<"error", n>>

\* A tracker that leaves the failed step as the one in progress
track_failure_keeps_current(s, name) ==
    [s EXCEPT !.flow_status = "failed",
              !.errors = Append(@, failed_message(name))]

\* A tracker that records the failed step as completed
track_failure_marks_completed(s, name) ==
    [s EXCEPT !.flow_status = "failed",
              !.current_executing_node = NONE,
              !.errors = Append(@, failed_message(name)),
              !.last_completed_node = name,
              !.completed_nodes = IF Contains(@, name) THEN @
                                  ELSE Append(@, name)]

\* track_node (nodes.py), the body raised: lines 76-79
track_failure(s, name) ==
    [s EXCEPT !.flow_status = "failed",
              !.current_executing_node = NONE,
              !.errors = Append(@, failed_message(name))]

\* load_context_node with a force_restart branch that resets the flags but
\* leaves the loaded completed_nodes in place
load_context_node_keeps_history(s, p) ==
    IF p.exists
    THEN LET l == load_project_into_state(s, p) IN
         IF l.flow_status \in {"in_progress", "failed"}
               /\ l.last_completed_node # NONE /\ ~l.force_restart
         THEN [l EXCEPT !.is_resuming = TRUE]
         ELSE IF l.force_restart
         THEN [l EXCEPT !.is_resuming = FALSE,
                        !.flow_status = "not_started",
                        !.last_completed_node = NONE,
                        !.current_executing_node = NONE]
         ELSE [l EXCEPT !.is_resuming = FALSE]
    ELSE [s EXCEPT !.is_resuming = FALSE]

\* A load_context_node that resumes every unfinished flow, also one with no
\* last_completed_node
load_context_node_resumes_without_checkpoint(s, p) ==
    IF p.exists
    THEN LET l == load_project_into_state(s, p) IN
         IF l.flow_status \in {"in_progress", "failed"} /\ ~l.force_restart
         THEN [l EXCEPT !.is_resuming = TRUE]
         ELSE IF l.force_restart
         THEN [l EXCEPT !.is_resuming = FALSE,
                        !.flow_status = "not_started",
                        !.last_completed_node = NONE,
                        !.completed_nodes = <<>>,
                        !.current_executing_node = NONE]
         ELSE [l EXCEPT !.is_resuming = FALSE]
    ELSE [s EXCEPT !.is_resuming = FALSE]

\* load_context_node, the body (p is the row load_project returned)
load_context_node(s, p) ==
    IF p.exists
    THEN LET l == load_project_into_state(s, p) IN
         IF l.flow_status = "in_progress" /\ l.last_completed_node # NONE
               /\ ~l.force_restart
         THEN [l EXCEPT !.is_resuming = TRUE]
         ELSE IF l.flow_status = "failed" /\ l.last_completed_node # NONE
                    /\ ~l.force_restart
         THEN [l EXCEPT !.is_resuming = TRUE]
         ELSE IF l.force_restart
         THEN [l EXCEPT !.is_resuming = FALSE,
                        !.flow_status = "not_started",
                        !.last_completed_node = NONE,
                        !.completed_nodes = <<>>,
                        !.current_executing_node = NONE]
         ELSE [l EXCEPT !.is_resuming = FALSE]
    ELSE [s EXCEPT !.is_resuming = FALSE]

\* The body of load_context_node has not been called
load_context_idle ==
    [called |-> FALSE,
     project_data |-> fresh_project,
     force_restart |-> FALSE,
     result |-> create_initial_state]

\* should_skip_to_resume_point without its load_context and completed_nodes
\* tests: every resumed session skips to the router
should_skip_whenever_resuming(s) ==
    IF ~s.is_resuming \/ s.last_completed_node = NONE THEN "normal"
    ELSE "resume"

\* should_skip_to_resume_point: the label of load_context's conditional edge
should_skip_to_resume_point(s) ==
    IF ~s.is_resuming \/ s.last_completed_node = NONE THEN "normal"
    ELSE IF s.last_completed_node = "load_context" THEN "normal"
    ELSE IF Contains(s.completed_nodes, "analyze_files")
              /\ Contains(s.completed_nodes, "router") THEN "resume"
    ELSE "normal"

\* get_resume_node, the branch for last_completed_node == "router"
resume_after_router(s) ==
    IF s.decision = "initialize" \/ s.decision = "enrich" THEN "discovery"
    ELSE IF s.decision = "reflect" THEN "reflection"
    ELSE IF s.decision = "continue" THEN
         CASE s.current_phase = "data_collected" -> "insight"
           [] s.current_phase = "strategy_built" -> "campaign_setup"
           [] s.current_phase = "optimizing" -> "adjustment"
           [] OTHER -> "discovery"
    ELSE "discovery"

\* A resolver without the final else: an unknown name comes back as it went in
get_resume_node_without_default(last, s) ==
    CASE last = "load_context" -> "analyze_files"
      [] last = "analyze_files" -> "router"
      [] last = "router" -> resume_after_router(s)
      [] last = "discovery" -> "data_collection"
      [] last = "user_input" -> "data_collection"
      [] last = "data_collection" -> "insight"
      [] last = "insight" -> "campaign_setup"
      [] last = "campaign_setup" -> "save"
      [] last = "reflection" -> "adjustment"
      [] last = "adjustment" -> "save"
      [] last = "save" \/ last = "save_state" -> NONE
      [] OTHER -> last

\* A resolver that sends user_input past data_collection and does not know
\* the terminal step under the tracker's name
get_resume_node_off_the_edges(last, s) ==
    CASE last = "load_context" -> "analyze_files"
      [] last = "analyze_files" -> "router"
      [] last = "router" -> resume_after_router(s)
      [] last = "discovery" -> "data_collection"
      [] last = "user_input" -> "insight"
      [] last = "data_collection" -> "insight"
      [] last = "insight" -> "campaign_setup"
      [] last = "campaign_setup" -> "save"
      [] last = "reflection" -> "adjustment"
      [] last = "adjustment" -> "save"
      [] last = "save" -> NONE
      [] OTHER -> "router"

\* get_resume_node (NONE is Python's None: flow complete)
get_resume_node(last, s) ==
    CASE last = "load_context" -> "analyze_files"
      [] last = "analyze_files" -> "router"
      [] last = "router" -> resume_after_router(s)
      [] last = "discovery" -> "data_collection"
      [] last = "user_input" -> "data_collection"
      [] last = "data_collection" -> "insight"
      [] last = "insight" -> "campaign_setup"
      [] last = "campaign_setup" -> "save"
      [] last = "reflection" -> "adjustment"
      [] last = "adjustment" -> "save"
      [] last = "save" \/ last = "save_state" -> NONE
      [] OTHER -> "router"

\* A routing that sends the enrich decision past discovery
normal_routing_enrich_skips_discovery(s) ==
    CASE s.decision = "initialize" -> "discovery"
      [] s.decision = "reflect" -> "reflection"
      [] s.decision = "enrich" -> "data_collection"
      [] s.decision = "continue" ->
            CASE s.current_phase = "initialized" -> "insight"
              [] s.current_phase = "strategy_built" -> "campaign_setup"
              [] s.current_phase = "awaiting_results" -> "save"
              [] s.current_phase = "optimizing" -> "adjustment"
              [] OTHER -> "discovery"
      [] OTHER -> "discovery"

\* get_next_node, lines 251-279: routing on the router's decision
normal_routing(s) ==
    CASE s.decision = "initialize" -> "discovery"
      [] s.decision = "reflect" -> "reflection"
      [] s.decision = "enrich" -> "discovery"
      [] s.decision = "continue" ->
            CASE s.current_phase = "initialized" -> "insight"
              [] s.current_phase = "strategy_built" -> "campaign_setup"
              [] s.current_phase = "awaiting_results" -> "save"
              [] s.current_phase = "optimizing" -> "adjustment"
              [] OTHER -> "discovery"
      [] OTHER -> "discovery"

\* get_next_node: the label of the router's conditional edge
get_next_node(s) ==
    IF s.is_resuming /\ s.last_completed_node # NONE
    THEN LET next_node == get_resume_node(s.last_completed_node, s) IN
         IF next_node # NONE THEN next_node ELSE "save"
    ELSE normal_routing(s)

\* router_node makes the LLM call unless it is resuming with a decision in
\* the state (router.py 91-98)
router_calls_llm(s) == ~(s.is_resuming /\ s.decision # NONE)

\* router_node: d is the decision the LLM call yields (the fallback
\* "initialize" of the except branch is one of the values of d)
router_node(s, d) ==
    IF router_calls_llm(s) THEN [s EXCEPT !.decision = d] ELSE s

\* graph.py 88-102: the destinations registered for the router's edge
RouterEnds ==
    {"discovery", "user_input", "data_collection", "insight",
     "campaign_setup", "reflection", "adjustment", "save"}

\* graph.py 76-83: load_context's conditional edge
LoadContextEnds(label) == IF label = "resume" THEN "router" ELSE "analyze_files"

\* graph.py add_edge: the fixed edges ("END" after save)
FixedEdge(n) ==
    CASE n = "analyze_files" -> "router"
      [] n = "discovery" -> "data_collection"
      [] n = "user_input" -> "data_collection"
      [] n = "data_collection" -> "insight"
      [] n = "insight" -> "campaign_setup"
      [] n = "campaign_setup" -> "save"
      [] n = "reflection" -> "adjustment"
      [] n = "adjustment" -> "save"
      [] n = "save" -> "END"

\* What a step body can come to: "ok"; "met" (reflection: threshold met);
\* "err" (the body's own try/except caught an exception and logged it)
Outcomes == {"ok", "met", "err"}

\* The tracked steps whose body has calls outside any try/except, so that an
\* exception reaches the tracker (load_project; the discovery strategies;
\* the metadata loop of data_collection)
CanRaise == {"load_context", "discovery", "user_input", "data_collection"}

\* The steps whose body is wrapped in a try/except that logs the exception
\* to state["errors"] and returns normally
CatchesOwnErrors ==
    {"analyze_files", "insight", "campaign_setup", "reflection", "adjustment"}

\* The bodies of the steps between the router and save, and analyze_files:
\* what they do to the fields modelled here (current_phase, errors)
node_body(n, s, out) ==
    CASE n \in CatchesOwnErrors /\ out = "err" ->
            [s EXCEPT !.errors = Append(@, body_error_message(n))]
      [] n = "data_collection" -> [s EXCEPT !.current_phase = "data_collected"]
      [] n = "discovery" -> [s EXCEPT !.knowledge_facts = "facts"]
      [] n = "insight" /\ out # "err" -> [s EXCEPT !.current_phase = "strategy_built"]
      [] n = "campaign_setup" /\ out # "err" ->
            [s EXCEPT !.current_phase = "awaiting_results"]
      [] n = "reflection" /\ out = "met" -> [s EXCEPT !.current_phase = "completed"]
      [] n = "reflection" /\ out = "ok" -> [s EXCEPT !.current_phase = "optimizing"]
      [] n = "adjustment" /\ out # "err" ->
            [s EXCEPT !.current_phase = "awaiting_results"]
      [] n = "user_input" ->
            \* return discovery_node(state): the tracked discovery step, inside
            track_success(
                [track_enter(s, "discovery") EXCEPT !.knowledge_facts = "facts"],
                "discovery")
      [] OTHER -> s

\* Where the scheduler goes next, and whether the tracker still has to mark
\* the node (the router is not under the checkpoint tracker)
PhaseAt(n) == IF n = "router" THEN "body" ELSE "enter"

\* An exception: its class, and the words of str(e); no exception at all
no_exception == [cls |-> NONE, msg |-> <<>>]

\* What save_project raises to the tracker once the retry wrapper gave up,
\* by what the message of the last database error names
SaveErrors ==
    {[cls |-> "RetryError",
      msg |-> <<"column", "knowledge_facts", "not", "found">>],
     [cls |-> "RetryError",
      msg |-> <<"connection", "timeout">>]}

SaveOutcomes == {no_exception} \cup SaveErrors

\* The first save of an autosave returns or raises; a second save is only
\* ever made after an error of the first, and returns or raises
AutosaveOutcomes ==
    {o \in SaveOutcomes \X SaveOutcomes :
        \/ o[1].cls = NONE /\ o[2].cls = NONE
        \/ o[1].cls # NONE /\ o[2].msg \in {<<>>, <<"connection", "timeout">>}}

\* A tracker that tries the reduced snapshot after every save error
any_save_error(save_error) == save_error.cls # NONE

\* track_node: if "knowledge_facts" in str(save_error)
names_knowledge_facts(save_error) ==
    \E i \in 1..Len(save_error.msg) : save_error.msg[i] = "knowledge_facts"

\* A tracker whose autosave lets the exception of a failed save out
autosave_lets_errors_out(first, second) ==
    /\ first.cls # NONE
    /\ names_knowledge_facts(first) => second.cls # NONE

\* track_node: both saves of the autosave are inside try/except Exception,
\* which only logs a warning
autosave_raises(first, second) == FALSE

\* The autosave of track_node after a step returned result: the snapshot
\* with knowledge_facts is saved; if that raises first and first names
\* knowledge_facts, the snapshot without it is saved, which raises second
\* or not.  attempts are the include_knowledge_facts of the saves tried.
autosave(result, row, first, second) ==
    IF first.cls = NONE
    THEN [row |-> save_project(row, state_to_project_dict(result, TRUE)),
          attempts |-> <<TRUE>>,
          saved |-> TRUE]
    ELSE IF names_knowledge_facts(first)
    THEN [row |-> IF second.cls = NONE
                  THEN save_project(row,
                                    state_to_project_dict(result, FALSE))
                  ELSE row,
          attempts |-> <<TRUE, FALSE>>,
          saved |-> second.cls = NONE]
    ELSE [row |-> row, attempts |-> <<TRUE>>, saved |-> FALSE]

NewRun ==
    [executed |-> <<>>,
     llm_calls |-> 0,
     has_loaded |-> FALSE,
     loaded |-> Checkpoint(fresh_project),
     restart |-> FALSE,
     raised |-> FALSE,
     event |-> "start",
     node |-> NONE,
     saved |-> FALSE,
     save_attempts |-> <<>>,
     save_error |-> no_exception,
     before |-> create_initial_state]

\* No wrapped function is being invoked
retry_idle == [status |-> "idle"]

\* The project the sessions below work on
project_id == "p1"

\* The names and the contents of the local files given on the command line
FileNames == {"a.csv", "b.csv"}
Contents == {"v1", "v2"}

\* upload_file: storage_path = f"{project_id}/{filename}"
storage_path_of(pid, filename) == <<pid, filename>>

StoragePaths == {storage_path_of(project_id, n) : n \in FileNames}

\* No strategy (state["current_strategy"] of a new session)
no_strategy == [by |-> NONE, inputs |-> {}]

\* The insights_cache column of a row that has none
no_insights == [present |-> FALSE, strategy |-> no_strategy]

\* get_file_record returns None: no row for (project_id, storage_path)
no_record ==
    [present |-> FALSE, file_type |-> NONE, file_metadata |-> NONE,
     insights_cache |-> no_insights]

\* An empty uploaded_files table and an empty bucket, no session
cache_empty ==
    [table |-> [p \in StoragePaths |-> no_record],
     storage |-> [p \in StoragePaths |-> NONE],
     step |-> "idle",
     uploaded_files |-> <<>>,
     file_analyses |-> <<>>,
     current_strategy |-> no_strategy,
     log |-> <<>>,
     llm_calls |-> 0,
     errors |-> <<>>]

\* The flow instances that append to the same array field of the project
\* row, and the item each of them appends
Appenders == {"s1", "s2"}

item_of(c) == IF c = "s1" THEN "x" ELSE "y"

\* A flow instance that has not called append_to_array_field
caller_idle(c) ==
    [pc |-> "idle",
     item |-> item_of(c),
     project |-> [items |-> <<>>, updated_at |-> 0],
     attempt |-> 0,
     conflicts |-> 0,
     sleeps |-> <<>>,
     write_tokens |-> <<>>,
     loads |-> <<>>,
     via |-> <<>>]

\* The project row (its array field and its updated_at), the clock of the
\* database, and no caller of append_to_array_field
append_idle ==
    [row |-> [items |-> <<>>, updated_at |-> 0],
     initial_items |-> <<>>,
     clock |-> 0,
     other_writes |-> 0,
     callers |-> [c \in Appenders |-> caller_idle(c)]]

\* get_resume_node has not been called
resolver_idle ==
    [called |-> FALSE, last |-> NONE, decision |-> NONE,
     current_phase |-> "initialized", result |-> NONE]

\* MetaAdsAPI.__init__: a fresh client (retry_count = 0) that has made no
\* call.  calls, requests, responses, waits, result and error record what the
\* client's current call of _make_api_call does, earlier how its earlier calls
\* ended
MetaAdsAPI(dry_run) ==
    [dry_run |-> dry_run,
     retry_count |-> 0,
     status |-> "idle",
     calls |-> 0,
     requests |-> 0,
     responses |-> <<>>,
     waits |-> <<>>,
     result |-> NONE,
     error |-> NONE,
     earlier |-> <<>>]

meta_client == MetaAdsAPI(FALSE)

\* The searches parallel_web_search submits (the keys of its searches dict)
Searches == {"competitors", "benchmarks"}

\* parallel_web_search has not been called: the environment and the state it
\* will read, no future submitted, nothing collected
web_search_idle ==
    [pc |-> "idle",
     tavily_key |-> TRUE,
     product |-> TRUE,
     client_ok |-> TRUE,
     futures |-> [k \in Searches |-> [status |-> "not_submitted", result |-> NONE]],
     collected |-> <<>>,
     facts |-> [k \in Searches |-> NONE],
     messages |-> <<>>,
     raised |-> FALSE]

\* The flow instances that work on the same project
Flows == {"f1", "f2"}

\* The config_history entry instance f appends in campaign_setup
config_of(f) == <<"config", f>>

\* No instance has started; the row has an empty config_history.  For each
\* instance: the step it is at and whether the step's body has run, the
\* config_history of its AgentState, whether its campaign_setup appended
\* its entry, and how many of its saves failed
flows_idle ==
    [row |-> [config_history |-> <<>>],
     initial_history |-> <<>>,
     flows |-> [f \in Flows |->
                  [pc |-> "idle",
                   phase |-> "body",
                   config_history |-> <<>>,
                   appended |-> FALSE,
                   failed_saves |-> 0]]]

Init ==
    /\ st = create_initial_state
    /\ db = fresh_project
    /\ pc = "idle"
    /\ phase = "enter"
    /\ run = NewRun
    /\ rt = retry_idle
    /\ fc = cache_empty
    /\ ws = web_search_idle
    /\ cf = flows_idle
    /\ lc = load_context_idle
    /\ ap = append_idle
    /\ rs = resolver_idle
    /\ ma = meta_client

\* cli.py run_command 606-635: a new session on the project
StartRun(restart) ==
    /\ pc \in {"idle", "END", "aborted", "killed"}
    /\ st' = [create_initial_state EXCEPT !.force_restart = restart]
    /\ pc' = "load_context"
    /\ phase' = "enter"
    /\ run' = [NewRun EXCEPT !.restart = restart]
    /\ UNCHANGED db
    /\ UNCHANGED parts

\* The process is terminated (crash, restart): the AgentState is lost
Kill ==
    /\ pc \in GraphNodes
    /\ pc' = "killed"
    /\ run' = [run EXCEPT !.event = "killed", !.node = pc, !.saved = FALSE]
    /\ UNCHANGED <<st, db, phase>>
    /\ UNCHANGED parts

\* track_node (nodes.py) marks the node as executing
TrackerEnter ==
    /\ pc \in CheckpointTracked
    /\ phase = "enter"
    /\ st' = track_enter(st, node_name(pc))
    /\ phase' = "body"
    /\ run' = [run EXCEPT !.event = "enter", !.node = pc, !.saved = FALSE,
                          !.save_attempts = <<>>,
                          !.save_error = no_exception,
                          !.before = st]
    /\ UNCHANGED <<db, pc>>
    /\ UNCHANGED parts

\* load_context_node under track_node, its autosave, and the graph's
\* conditional edge out of load_context
LoadContext ==
    /\ pc = "load_context"
    /\ phase = "body"
    /\ \E o \in AutosaveOutcomes :
         LET first == o[1]
             second == o[2]
             s1 == load_context_node(st, db)
             s2 == track_success(s1, "load_context")
             nxt == LoadContextEnds(should_skip_to_resume_point(s2))
             save == autosave(s2, db, first, second)
             raises == autosave_raises(first, second)
         IN /\ st' = IF raises THEN track_failure(s2, "load_context") ELSE s2
            /\ db' = save.row
            /\ pc' = IF raises THEN "aborted" ELSE nxt
            /\ phase' = IF raises THEN "enter" ELSE PhaseAt(nxt)
            /\ run' = [run EXCEPT !.executed = Append(@, "load_context"),
                                  !.has_loaded = TRUE,
                                  !.loaded = Checkpoint(db),
                                  !.raised = raises,
                                  !.event = "done",
                                  !.node = "load_context",
                                  !.saved = save.saved,
                                  !.save_attempts = save.attempts,
                                  !.save_error = first]
    /\ UNCHANGED parts

\* A tracked step between load_context and save (analyze_files, discovery,
\* user_input, data_collection, insight, campaign_setup, reflection,
\* adjustment) returns: track_node records it and autosaves
Step ==
    /\ pc \in CheckpointTracked \ {"load_context", "save"}
    /\ phase = "body"
    /\ \E out \in Outcomes, o \in AutosaveOutcomes,
          inner \in IF pc = "user_input" THEN BOOLEAN ELSE {FALSE} :
         LET first == o[1]
             second == o[2]
             s1 == node_body(pc, st, out)
             s2 == track_success(s1, node_name(pc))
             nxt == FixedEdge(pc)
             \* the autosave of the tracked discovery step inside user_input
             row == IF pc = "user_input" /\ inner
                    THEN save_project(db, state_to_project_dict(s1, TRUE))
                    ELSE db
             save == autosave(s2, row, first, second)
             raises == autosave_raises(first, second)
         IN /\ st' = IF raises THEN track_failure(s2, node_name(pc)) ELSE s2
            /\ db' = save.row
            /\ pc' = IF raises THEN "aborted" ELSE nxt
            /\ phase' = IF raises THEN "enter" ELSE PhaseAt(nxt)
            /\ run' = [run EXCEPT !.executed = Append(@, pc),
                                  !.raised = raises,
                                  !.event = "done",
                                  !.node = pc,
                                  !.saved = save.saved,
                                  !.save_attempts = save.attempts,
                                  !.save_error = first]
    /\ UNCHANGED parts

\* The body of a tracked step raises: track_node marks the flow failed,
\* tries to save the failed state and re-raises; invoke() ends
StepRaises ==
    /\ pc \in CanRaise
    /\ phase = "body"
    /\ \E saved \in BOOLEAN :
         LET s1 == IF pc = "user_input"
                   THEN \* the tracked discovery step inside raised first
                        track_failure(
                            track_failure(track_enter(st, "discovery"),
                                          "discovery"),
                            "user_input")
                   ELSE track_failure(st, node_name(pc))
         IN /\ st' = s1
            /\ db' = IF saved
                     THEN save_project(db, state_to_project_dict(s1, FALSE))
                     ELSE db
            /\ run' = [run EXCEPT !.raised = TRUE,
                                  !.event = "failed",
                                  !.node = pc,
                                  !.saved = saved]
    /\ pc' = "aborted"
    /\ phase' = "enter"
    /\ UNCHANGED parts

\* router_node (under the progress-only track_node of router.py) and the
\* graph's conditional edge out of the router.  A label that is not among
\* the registered destinations has no target: the lookup in the edge's
\* mapping fails and invoke() ends with that error
Router ==
    /\ pc = "router"
    /\ \E d \in Decisions :
         LET s1 == router_node(st, d)
             label == get_next_node(s1)
             ok == label \in RouterEnds
         IN /\ st' = s1
            /\ pc' = IF ok THEN label ELSE "aborted"
            /\ phase' = "enter"
            /\ run' = [run EXCEPT !.executed = Append(@, "router"),
                                  !.llm_calls =
                                      IF router_calls_llm(st) THEN @ + 1 ELSE @,
                                  !.event = IF ok THEN "done" ELSE "bad_label",
                                  !.node = "router",
                                  !.saved = FALSE,
                                  !.save_attempts = <<>>,
                                  !.save_error = no_exception]
    /\ UNCHANGED db
    /\ UNCHANGED parts

\* get_gemini() (router.py 101, outside the try) raises: nothing tracks it
RouterRaises ==
    /\ pc = "router"
    /\ router_calls_llm(st)
    /\ pc' = "aborted"
    /\ phase' = "enter"
    /\ run' = [run EXCEPT !.raised = TRUE, !.event = "failed",
                          !.node = "router", !.saved = FALSE]
    /\ UNCHANGED <<st, db>>
    /\ UNCHANGED parts

\* save_state_node under track_node: the body saves the state as it is
\* while the step runs; the tracker then records the step and, for this
\* step, does not autosave (nodes.py 55-56)
SaveState ==
    /\ pc = "save"
    /\ phase = "body"
    /\ \E saved \in BOOLEAN, include_knowledge_facts \in BOOLEAN :
         /\ db' = IF saved
                  THEN save_project(
                           db,
                           state_to_project_dict(st, include_knowledge_facts))
                  ELSE db
         /\ st' = track_success(
                     IF saved THEN st
                     ELSE [st EXCEPT !.errors =
                               Append(@, body_error_message("save"))],
                     "save_state")
         /\ run' = [run EXCEPT !.executed = Append(@, "save"),
                               !.event = "done",
                               !.node = "save",
                               !.saved = saved]
    /\ pc' = "END"
    /\ phase' = "enter"
    /\ UNCHANGED parts

Next ==
    \/ \E restart \in BOOLEAN : StartRun(restart)
    \/ Kill
    \/ TrackerEnter
    \/ LoadContext
    \/ Step
    \/ StepRaises
    \/ Router
    \/ RouterRaises
    \/ SaveState

Spec == Init /\ [][Next]_vars

TypeOK ==
    /\ st.flow_status \in FlowStatuses
    /\ db.flow_status \in FlowStatuses
    /\ st.decision \in Decisions
    /\ st.current_phase \in Phases
    /\ pc \in GraphNodes \cup {"idle", "END", "aborted", "killed"}
    /\ phase \in {"enter", "body"}

(***************************************************************************)
(* The example of the specification: a project whose persisted checkpoint  *)
(* is last_completed_node = load_context, flow_status = in_progress,       *)
(* completed_nodes = [load_context].  The row is given: it is the content  *)
(* of the store when the session starts.                                   *)
(***************************************************************************)
scenario_project ==
    [fresh_project EXCEPT !.last_completed_node = "load_context",
                          !.completed_nodes = <<"load_context">>,
                          !.flow_status = "in_progress"]

InitScenario ==
    /\ st = create_initial_state
    /\ db = scenario_project
    /\ pc = "idle"
    /\ phase = "enter"
    /\ run = NewRun
    /\ rt = retry_idle
    /\ fc = cache_empty
    /\ ws = web_search_idle
    /\ cf = flows_idle
    /\ lc = load_context_idle
    /\ ap = append_idle
    /\ rs = resolver_idle
    /\ ma = meta_client

SpecScenario == InitScenario /\ [][Next]_vars

\* The steps behind the router's conditional edge
Downstream ==
    {"discovery", "user_input", "data_collection", "insight",
     "campaign_setup", "reflection", "adjustment", "save"}

\* The tracker's names of the tracked steps among the executed ones, in order
TrackedNames(executed) ==
    LET t == SelectSeq(executed, LAMBDA n : n \in CheckpointTracked)
    IN [i \in 1..Len(t) |-> node_name(t[i])]

\* The steps from n to the end of the graph along the fixed edges, as the
\* tracker names them
RECURSIVE PathFrom(_)
PathFrom(n) ==
    IF n = "END" THEN <<>> ELSE <<node_name(n)>> \o PathFrom(FixedEdge(n))

\* The final completed_nodes of the uninterrupted runs on a new project
UninterruptedFinals ==
    {<<"load_context", "analyze_files">> \o PathFrom(n) : n \in Downstream}

\* The current session resumed from a checkpoint
Resumed == run.has_loaded /\ st.is_resuming

\* The last step of the session was step n and it returned
JustDone(n) == run.event = "done" /\ run.node = n

\* C1: a session resumed after an interruption re-executes none of the steps
\* the checkpoint records as completed, and ends with the completed_nodes of
\* an uninterrupted run.
C1_ResumptionEquivalence ==
    Resumed =>
        /\ \A i \in 1..Len(run.executed) :
              ~Contains(run.loaded.completed_nodes, node_name(run.executed[i]))
        /\ (pc = "END" => st.completed_nodes \in UninterruptedFinals)

\* C2: a resumed session in which no step raises ends with the terminal save
\* step executed and flow_status = completed (it does not end any other way).
C2_ResumedRunCompletes ==
    (Resumed /\ ~run.raised /\ pc \in {"END", "aborted"}) =>
        /\ pc = "END"
        /\ Contains(run.executed, "save")
        /\ st.flow_status = "completed"

\* C3: after a step that completed and whose persistence call succeeded, the
\* persisted checkpoint fields equal the in-memory ones; after the terminal
\* step the row has flow_status = completed and last_completed_node = the
\* terminal step.
C3_PersistedEqualsMemory ==
    (run.event = "done" /\ run.saved) =>
        /\ Checkpoint(db) = Checkpoint(st)
        /\ (run.node = "save" =>
               /\ db.flow_status = "completed"
               /\ db.last_completed_node = node_name("save"))

\* A checkpoint written after the router had decided: it records a step
\* behind the router's edge
WrittenAfterDecision(cp) ==
    \E n \in Downstream : Contains(cp.completed_nodes, node_name(n))

\* C4: in a session resumed from a checkpoint written after the router had
\* produced a decision, the router's LLM decision call is not made again.
C4_NoRouterCallOnResume ==
    (Resumed /\ WrittenAfterDecision(run.loaded)) => run.llm_calls = 0

\* C5: after the router step completed, last_completed_node = router, router
\* is in completed_nodes and the state has been autosaved.
C5_RouterUnderCheckpointTracker ==
    JustDone("router") =>
        /\ st.last_completed_node = "router"
        /\ Contains(st.completed_nodes, "router")
        /\ Checkpoint(db) = Checkpoint(st)

\* last_completed_node is null or the last element of completed_nodes
LastIsLastElement(r) ==
    \/ r.last_completed_node = NONE
    \/ /\ Len(r.completed_nodes) > 0
       /\ r.completed_nodes[Len(r.completed_nodes)] = r.last_completed_node

\* C6: in every reachable state, across sessions, last_completed_node is
\* null or the last element of completed_nodes (in memory and persisted).
C6_LastCompletedIsLastElement ==
    LastIsLastElement(st) /\ LastIsLastElement(db)

\* The transitions of flow_status the specification allows
AllowedFlowTransition(old, new, force_restart) ==
    \/ old = "not_started" /\ new = "in_progress"
    \/ old = "in_progress" /\ new = "completed"
    \/ old = "in_progress" /\ new = "failed"
    \/ old = "failed" /\ new = "in_progress"
    \/ new = "not_started" /\ force_restart

\* C7: within a session, flow_status changes only along the allowed
\* transitions, also while load_context hydrates the state.
C7_FlowStatusTransitions ==
    [][(pc \in GraphNodes /\ st'.flow_status # st.flow_status) =>
          AllowedFlowTransition(st.flow_status, st'.flow_status,
                                st'.force_restart)]_vars

\* C8: a session started with force_restart on a project whose persisted
\* flow is in_progress or failed: load_context resets flow_status to
\* not_started, completed_nodes holds only the steps of this session,
\* is_resuming is false, the first step is the entry step and the edges
\* out of load_context and of the router are the non-resume ones.
C8_ForceRestart ==
    (run.has_loaded /\ run.restart
        /\ run.loaded.flow_status \in {"in_progress", "failed"}) =>
        /\ ~st.is_resuming
        /\ run.executed[1] = "load_context"
        /\ st.completed_nodes = TrackedNames(run.executed)
        /\ (JustDone("load_context") =>
               /\ st.flow_status = "not_started"
               /\ pc = "analyze_files")
        /\ (JustDone("router") => pc = normal_routing(st))

\* C8 witness: a force-restarted session over a checkpoint that recorded
\* steps behind the router has passed its own router
C8_Witness ==
    /\ run.has_loaded /\ run.restart
    /\ run.loaded.flow_status \in {"in_progress", "failed"}
    /\ WrittenAfterDecision(run.loaded)
    /\ JustDone("router")

\* The session resumed from the checkpoint of the example
FromScenario ==
    /\ run.has_loaded /\ ~run.restart
    /\ run.loaded = Checkpoint(scenario_project)

\* C9: from the checkpoint of the example, without force_restart, the step
\* after load_context is analyze_files, and no step behind the router's edge
\* executes before the router has executed.
C9_ResumeAfterLoadContext ==
    FromScenario =>
        /\ (JustDone("load_context") => pc = "analyze_files")
        /\ (Len(run.executed) >= 2 => run.executed[2] = "analyze_files")
        /\ \A i \in 1..Len(run.executed) :
              run.executed[i] \in Downstream =>
                  \E j \in 1..(i - 1) : run.executed[j] = "router"

\* C9 witness: such a session has executed analyze_files and then the router
C9_Witness ==
    /\ FromScenario
    /\ st.is_resuming
    /\ run.executed = <<"load_context", "analyze_files", "router">>

\* C10: at the router's edge, the step get_resume_node gives for
\* last_completed_node = router is the step normal routing selects for the
\* same decision and phase.
C10_ResumeEqualsNormalRouting ==
    (run.node = "router" /\ run.event \in {"done", "bad_label"}) =>
        get_resume_node("router", st) = normal_routing(st)

(***************************************************************************)
(* The checkpoint tracker when the step it wraps raises                    *)
(***************************************************************************)

\* The run has just been aborted by an exception of a checkpoint-tracked
\* step other than user_input (whose body is itself a tracked step)
TrackedStepFailed ==
    /\ run.event = "failed"
    /\ run.node \in CheckpointTracked \ {"user_input"}

\* C19: when a step under the checkpoint tracker raises, the tracker sets
\* flow_status to failed, clears current_executing_node, appends exactly one
\* message naming the step to the error log, attempts to save the failed
\* state (a successful save leaves the failed state in the store) and
\* re-raises, aborting the run, whether or not that save succeeded.
C19_TrackerOnFailure ==
    TrackedStepFailed =>
        /\ st.flow_status = "failed"
        /\ st.current_executing_node = NONE
        /\ st.errors = Append(run.before.errors,
                              failed_message(node_name(run.node)))
        /\ pc = "aborted"
        /\ run.raised
        /\ run.saved => /\ db.flow_status = "failed"
                        /\ db.current_executing_node = NONE

\* A tracked step raised and the save of the failed state failed as well
C19_Witness ==
    /\ TrackedStepFailed
    /\ ~run.saved
    /\ pc = "aborted"

\* C20: a failing step is not recorded as completed: the failed state, in
\* memory and as persisted by the tracker, has the last_completed_node and
\* completed_nodes the state had before the step started.
C20_FailedStepNotCompleted ==
    TrackedStepFailed =>
        /\ st.last_completed_node = run.before.last_completed_node
        /\ st.completed_nodes = run.before.completed_nodes
        /\ run.saved =>
              /\ db.last_completed_node = run.before.last_completed_node
              /\ db.completed_nodes = run.before.completed_nodes

\* A step after load_context raised and its failed state was persisted
C20_Witness ==
    /\ TrackedStepFailed
    /\ run.saved
    /\ run.node # "load_context"
    /\ run.before.last_completed_node # NONE

(***************************************************************************)
(* The retry wrapper (src/src/utils/retry.py) and the persistence          *)
(* operations it decorates (src/src/database/persistence.py).  rt is one   *)
(* invocation of a wrapped function: the decorator's arguments, the loop   *)
(* index, and what the invocation has done so far (calls of the wrapped    *)
(* function, sleeps, on_retry calls, exceptions seen).                     *)
(***************************************************************************)

\* The largest max_attempts a wrapped function is configured with
MaxAttempts == 3

\* retry(..., base_delay=1.0, max_delay=30.0)
default_base_delay == 1
default_max_delay == 30

\* @retry(max_attempts=3, exceptions=(Exception,), base_delay=2.0)
persistence_max_attempts == 3
persistence_base_delay == 2

\* A max_delay short enough for the second delay to meet it
ShortMaxDelay == 3

\* The base_delay= and max_delay= a wrapped function is configured with
BaseDelays == {default_base_delay, persistence_base_delay}
MaxDelays == {ShortMaxDelay, default_max_delay}

\* What a wrapped function raises
PlainErrors ==
    {[cls |-> c, msg |-> <<"failed">>] :
        c \in {"NetworkError", "TimeoutError", "ValueError"}}

\* What the database client raises inside a persistence operation
DbErrors ==
    {[cls |-> "APIError", msg |-> m] :
        m \in {<<"Connection", "reset">>,
               <<"duplicate", "key">>,
               <<"violates", "constraint">>}}

\* The tuples of classes given as exceptions=
ExceptionTuples ==
    {{"Exception"}, {"NetworkError", "TimeoutError"}, {"NetworkError"}}

\* except exceptions as e: every class modelled derives from Exception
is_instance(cls, exceptions) ==
    "Exception" \in exceptions \/ cls \in exceptions

\* str.lower() on the words used in the messages
lower(w) ==
    CASE w = "Connection" -> "connection"
      [] OTHER -> w

transient_indicators ==
    {"timeout", "connection", "network", "temporary", "503", "502", "504",
     "429", "socket", "dns", "ssl", "certificate"}

\* is_retryable_error: an indicator occurs in the lowered message (a word of
\* the message is the granularity of "occurs in")
is_retryable_error(e) ==
    \E i \in 1..Len(e.msg) : lower(e.msg[i]) \in transient_indicators

Min(a, b) == IF a <= b THEN a ELSE b

\* A backoff that keeps doubling past max_delay
exponential_backoff_uncapped(attempt, base_delay, max_delay) ==
    base_delay * 2^attempt

exponential_backoff(attempt, base_delay, max_delay) ==
    Min(base_delay * 2^attempt, max_delay)

\* A loop test that never recognises the last attempt
is_last_attempt_never(attempt, max_attempts) == attempt = max_attempts

\* if attempt == max_attempts - 1
is_last_attempt(attempt, max_attempts) == attempt + 1 = max_attempts

\* The wrapper is entered: for attempt in range(max_attempts)
retry_call(op, max_attempts, exceptions, base_delay, max_delay, on_retry) ==
    [status |-> "running",
     op |-> op,
     max_attempts |-> max_attempts,
     exceptions |-> exceptions,
     base_delay |-> base_delay,
     max_delay |-> max_delay,
     on_retry |-> on_retry,
     attempt |-> 0,
     calls |-> 0,
     sleeps |-> <<>>,
     on_retry_calls |-> <<>>,
     raised |-> <<>>,
     db_raised |-> <<>>,
     last_exception |-> no_exception,
     cause |-> no_exception]

\* The except branch of the wrapper for an exception e it catches: RetryError
\* from e on the last attempt; otherwise on_retry, sleep, next iteration, and
\* raise last_exception once the range is exhausted
retry_on_caught(r, e) ==
    LET r1 == [r EXCEPT !.last_exception = e]
        r2 == [r1 EXCEPT
                 !.on_retry_calls =
                     IF r.on_retry THEN Append(@, r.attempt + 1) ELSE @,
                 !.sleeps = Append(@, exponential_backoff(r.attempt,
                                                          r.base_delay,
                                                          r.max_delay)),
                 !.attempt = @ + 1]
    IN  IF is_last_attempt(r.attempt, r.max_attempts)
        THEN [r1 EXCEPT !.status = "RetryError", !.cause = e]
        ELSE IF r2.attempt < r.max_attempts
             THEN r2
             ELSE [r2 EXCEPT !.status = "propagated",
                             !.cause = r2.last_exception]

\* A wrapper whose except clause catches every exception
retry_attempt_catches_all(r, e) ==
    LET r0 == [r EXCEPT !.calls = @ + 1]
    IN  IF e.cls = NONE
        THEN [r0 EXCEPT !.status = "returned"]
        ELSE retry_on_caught([r0 EXCEPT !.raised = Append(@, e)], e)

\* One iteration of the wrapper's loop: func is called and returns
\* (e = no_exception) or raises e
retry_attempt(r, e) ==
    LET r0 == [r EXCEPT !.calls = @ + 1]
        r1 == [r0 EXCEPT !.raised = Append(@, e)]
    IN  IF e.cls = NONE
        THEN [r0 EXCEPT !.status = "returned"]
        ELSE IF is_instance(e.cls, r.exceptions)
             THEN retry_on_caught(r1, e)
             ELSE [r1 EXCEPT !.status = "propagated", !.cause = e]

\* The body of a persistence operation around its database call, which
\* returns (d = no_exception) or raises d: a transient error is re-raised,
\* any other is raised as DatabaseError from d
persistence_op(d) ==
    IF d.cls = NONE THEN no_exception
    ELSE IF is_retryable_error(d) THEN d
    ELSE [cls |-> "DatabaseError", msg |-> <<"Failed", "to", "save">> \o d.msg]

\* A function decorated with retry(max_attempts, exceptions, base_delay,
\* max_delay, on_retry) is called
CallWrapped(max_attempts, exceptions, base_delay, max_delay, on_retry) ==
    /\ rt.status # "running"
    /\ rt' = retry_call("plain", max_attempts, exceptions,
                        base_delay, max_delay, on_retry)
    /\ UNCHANGED <<engine, fc, ap, rs, ma, ws, cf, lc>>

\* A persistence operation (load_project, create_project, save_project,
\* create_session) is called
CallPersistence ==
    /\ rt.status # "running"
    /\ rt' = retry_call("persistence", persistence_max_attempts,
                        {"Exception"}, persistence_base_delay,
                        default_max_delay, FALSE)
    /\ UNCHANGED <<engine, fc, ap, rs, ma, ws, cf, lc>>

\* The wrapper calls the wrapped function once more
RetryAttempt ==
    /\ rt.status = "running"
    /\ rt.op = "plain"
    /\ \E e \in PlainErrors \cup {no_exception} :
         rt' = retry_attempt(rt, e)
    /\ UNCHANGED <<engine, fc, ap, rs, ma, ws, cf, lc>>

\* The wrapper calls the persistence operation once more; the operation
\* makes its database call
PersistenceAttempt ==
    /\ rt.status = "running"
    /\ rt.op = "persistence"
    /\ \E d \in DbErrors \cup {no_exception} :
         rt' = [retry_attempt(rt, persistence_op(d)) EXCEPT
                  !.db_raised = IF d.cls = NONE THEN @ ELSE Append(@, d)]
    /\ UNCHANGED <<engine, fc, ap, rs, ma, ws, cf, lc>>

NextRetry ==
    \/ \E n \in 1..MaxAttempts, x \in ExceptionTuples, f \in BOOLEAN,
          b \in BaseDelays, m \in MaxDelays :
         CallWrapped(n, x, b, m, f)
    \/ CallPersistence
    \/ RetryAttempt
    \/ PersistenceAttempt

SpecRetry == Init /\ [][NextRetry]_vars

\* Every call of the wrapped function so far raised an exception of the
\* configured classes
AlwaysRaisedRetryable ==
    /\ rt.status \notin {"idle", "returned"}
    /\ \A i \in 1..Len(rt.raised) :
          is_instance(rt.raised[i].cls, rt.exceptions)

\* C13: with max_attempts = N >= 1 and a wrapped call that always raises a
\* retryable exception, the wrapper calls it exactly N times: it is still
\* in its loop before the Nth call, and the Nth failure raises RetryError
\* whose cause is the last exception the call raised.
C13_RetryBudget ==
    AlwaysRaisedRetryable =>
        /\ rt.calls <= rt.max_attempts
        /\ rt.calls < rt.max_attempts => rt.status = "running"
        /\ rt.calls = rt.max_attempts =>
              /\ rt.status = "RetryError"
              /\ rt.cause = rt.raised[rt.max_attempts]

\* The budget of three attempts was used up by retryable exceptions
C13_Witness ==
    /\ AlwaysRaisedRetryable
    /\ rt.op = "plain"
    /\ rt.max_attempts = 3
    /\ rt.calls = 3
    /\ rt.status = "RetryError"

\* The last call of the wrapped function raised an exception whose class is
\* not among the configured ones
RaisedOutsideTheSet ==
    /\ rt.status \notin {"idle", "returned"}
    /\ Len(rt.raised) = rt.calls
    /\ rt.calls > 0
    /\ LET cls == rt.raised[rt.calls].cls
       IN  "Exception" \notin rt.exceptions /\ cls \notin rt.exceptions

\* C14: when the wrapped call raises an exception whose class is not in the
\* configured set, the wrapper does not call it again, neither sleeps nor
\* calls on_retry for it, and propagates that exception itself; raised by
\* the first call, the call was made exactly once with no sleep and no
\* on_retry at all.
C14_NonRetryablePropagates ==
    RaisedOutsideTheSet =>
        /\ rt.status = "propagated"
        /\ rt.cause = rt.raised[rt.calls]
        /\ Len(rt.sleeps) = rt.calls - 1
        /\ Len(rt.on_retry_calls) = IF rt.on_retry THEN rt.calls - 1 ELSE 0
        /\ ~is_instance(rt.raised[1].cls, rt.exceptions) =>
              /\ rt.calls = 1
              /\ rt.sleeps = <<>>
              /\ rt.on_retry_calls = <<>>

\* The first call raised ValueError under exceptions=(NetworkError,
\* TimeoutError) with an on_retry callback
C14_Witness ==
    /\ RaisedOutsideTheSet
    /\ rt.calls = 1
    /\ rt.on_retry
    /\ rt.max_attempts > 1
    /\ rt.status = "propagated"

\* C12: in a persistence operation, a database error that is_retryable_error
\* does not classify as transient is fatal: the database call is made
\* exactly once, no backoff sleep occurs and the error reaches the caller.
C12_NonTransientIsFatal ==
    ( /\ rt.status # "idle"
      /\ rt.op = "persistence"
      /\ Len(rt.db_raised) > 0
      /\ ~is_retryable_error(rt.db_raised[1]) ) =>
        /\ rt.calls = 1
        /\ rt.sleeps = <<>>
        /\ rt.status = "propagated"

(***************************************************************************)
(* The file cache: the uploaded_files table                                *)
(* (src/src/database/file_persistence.py), the storage bucket              *)
(* (src/src/storage/file_manager.py) and the two steps that use them,      *)
(* analyze_files_node and insight_node (src/src/agent/nodes.py).  A        *)
(* session uploads its input files, runs analyze_files, then insight; a    *)
(* new session can start at any point (the process was killed, or the      *)
(* router took another branch).  table and storage survive the sessions.   *)
(***************************************************************************)

\* The largest number of files given to one session
MaxFiles == 2

\* A local file: its name and its content
Artifacts == [name : FileNames, content : Contents]

\* The file lists of a session: up to MaxFiles files
FileLists ==
    UNION {[1..n -> Artifacts] : n \in 0..MaxFiles}

\* DataLoader.detect_file_type on the contents modelled
detect_file_type(content) ==
    CASE content = "v1" -> "historical"
      [] OTHER -> "experiment_results"

\* cli.py: every file is uploaded (upsert: the object at the path is
\* overwritten) and listed by storage path and file name
RECURSIVE upload_files(_, _, _)
upload_files(storage, files, i) ==
    IF i > Len(files) THEN storage
    ELSE upload_files(
             [storage EXCEPT
                ![storage_path_of(project_id, files[i].name)] =
                    files[i].content],
             files, i + 1)

uploaded_files_of(files) ==
    [i \in 1..Len(files) |->
        [storage_path |-> storage_path_of(project_id, files[i].name),
         original_filename |-> files[i].name]]

get_file_record(table, storage_path) == table[storage_path]

\* A lookup that is a hit only for a row that has its insights too
cache_hit_needs_insights(cached_record) ==
    /\ cached_record.present
    /\ cached_record.file_metadata # NONE
    /\ cached_record.file_type # NONE
    /\ cached_record.insights_cache.present

\* analyze_files_node: cached_record and cached_record.get("file_metadata")
\* and cached_record.get("file_type")
cache_hit(cached_record) ==
    /\ cached_record.present
    /\ cached_record.file_metadata # NONE
    /\ cached_record.file_type # NONE

\* upsert_file_record without insights_cache: the row is updated (its
\* insights_cache column is not among the columns written) or inserted
upsert_file_record(table, storage_path, file_type, file_metadata) ==
    [table EXCEPT ![storage_path] =
        IF @.present
        THEN [@ EXCEPT !.file_type = file_type,
                       !.file_metadata = file_metadata]
        ELSE [present |-> TRUE, file_type |-> file_type,
              file_metadata |-> file_metadata,
              insights_cache |-> no_insights]]

\* cache_file_insights: an UPDATE of the rows with that key, if any
cache_file_insights(table, storage_path, insights) ==
    [table EXCEPT ![storage_path] =
        IF @.present THEN [@ EXCEPT !.insights_cache = insights] ELSE @]

\* Where an exception can be raised while a file is analysed
AnalysisFailures == {"lookup", "download", "upsert"}

\* The body of the loop of analyze_files_node for one file f; fails says
\* that the call named by kind raises for this file.  The metadata stored
\* for a file is what its analysis found: it stands for the content that
\* was analysed.  data is the raw data of the analysis: what was read from
\* the downloaded file, or nothing ("data": []) for a cache hit.
analyze_one(acc, f, fails, kind) ==
    LET cached_record == get_file_record(acc.table, f.storage_path)
        content == acc.storage[f.storage_path]
        entry == [storage_path |-> f.storage_path,
                  content |-> content,
                  record_before |-> cached_record,
                  hit |-> cache_hit(cached_record),
                  downloaded |-> FALSE,
                  analyzed |-> FALSE]
        done == [entry EXCEPT !.downloaded = TRUE, !.analyzed = TRUE]
    IN  IF fails /\ kind = "lookup"
        THEN [acc EXCEPT !.failed = TRUE]
        ELSE IF cache_hit(cached_record)
        THEN [acc EXCEPT
                !.analyses = Append(@,
                    [file_path |-> f.storage_path,
                     type |-> cached_record.file_type,
                     of |-> cached_record.file_metadata,
                     data |-> NONE,
                     cached |-> TRUE,
                     insights_cache |-> cached_record.insights_cache]),
                !.log = Append(@, entry)]
        ELSE IF fails /\ kind = "download"
        THEN [acc EXCEPT !.failed = TRUE, !.log = Append(@, entry)]
        ELSE IF fails /\ kind = "upsert"
        THEN [acc EXCEPT !.failed = TRUE, !.log = Append(@, done)]
        ELSE [acc EXCEPT
                !.table = upsert_file_record(@, f.storage_path,
                                             detect_file_type(content),
                                             content),
                !.analyses = Append(@,
                    [file_path |-> f.storage_path,
                     type |-> detect_file_type(content),
                     of |-> content,
                     data |-> content,
                     cached |-> FALSE,
                     insights_cache |-> no_insights]),
                !.log = Append(@, done)]

\* for file_info in state["uploaded_files"], left by the first exception
RECURSIVE analyze_loop(_, _, _, _, _)
analyze_loop(acc, files, i, fail_at, kind) ==
    IF i > Len(files) \/ acc.failed THEN acc
    ELSE analyze_loop(analyze_one(acc, files[i], i = fail_at, kind),
                      files, i + 1, fail_at, kind)

\* analyze_files_node: file_analyses is assigned only if the loop ended
analyze_files_node(c, fail_at, kind) ==
    LET acc == analyze_loop([table |-> c.table, storage |-> c.storage,
                             analyses |-> <<>>, log |-> <<>>,
                             failed |-> FALSE],
                            c.uploaded_files, 1, fail_at, kind)
    IN  [c EXCEPT !.table = acc.table,
                  !.log = acc.log,
                  !.file_analyses = IF acc.failed THEN @ ELSE acc.analyses,
                  !.errors = IF acc.failed
                             THEN Append(@, body_error_message("analyze_files"))
                             ELSE @,
                  !.step = "analyzed"]

\* merge_cached_insights: the strategy cached for the first file
merge_cached_insights(cached_files) ==
    IF cached_files = <<>> THEN no_strategy
    ELSE cached_files[1].insights_cache.strategy

\* generate_insights_and_strategy: the strategy depends on what the state's
\* analyses describe
generate_insights_and_strategy(file_analyses) ==
    [by |-> "llm",
     inputs |-> {file_analyses[i].of : i \in 1..Len(file_analyses)}]

IsCachedFile(analysis) == analysis.cached /\ analysis.insights_cache.present

IsNewFile(analysis) == ~IsCachedFile(analysis)

\* for file_info in state["uploaded_files"]: cache_file_insights, left by
\* the first exception
RECURSIVE cache_loop(_, _, _, _, _)
cache_loop(table, files, i, fail_at, strategy) ==
    IF i > Len(files) \/ i = fail_at THEN table
    ELSE cache_loop(cache_file_insights(table, files[i].storage_path,
                                        [present |-> TRUE,
                                         strategy |-> strategy]),
                    files, i + 1, fail_at, strategy)

\* insight_node: if not new_files and cached_files
all_files_cached(cached_files, new_files) ==
    new_files = <<>> /\ cached_files # <<>>

\* insight_node; llm_ok: the generation call returns; fail_at: the index of
\* the file whose cache_file_insights raises (0: none)
insight_node(c, llm_ok, fail_at) ==
    LET cached_files == SelectSeq(c.file_analyses, IsCachedFile)
        new_files == SelectSeq(c.file_analyses, IsNewFile)
        use_cache == all_files_cached(cached_files, new_files)
        strategy == IF use_cache THEN merge_cached_insights(cached_files)
                    ELSE generate_insights_and_strategy(c.file_analyses)
        failed == (~use_cache /\ ~llm_ok)
                    \/ fail_at \in 1..Len(c.uploaded_files)
    IN  [c EXCEPT
           !.llm_calls = IF use_cache THEN @ ELSE @ + 1,
           !.current_strategy = IF ~use_cache /\ ~llm_ok THEN @ ELSE strategy,
           !.table = IF ~use_cache /\ ~llm_ok THEN @
                     ELSE cache_loop(@, c.uploaded_files, 1, fail_at,
                                     strategy),
           !.errors = IF failed
                      THEN Append(@, body_error_message("insight"))
                      ELSE @,
           !.step = "insight_done"]

\* run_command: the files are uploaded and a new state is created
CacheSession(files) ==
    /\ fc' = [cache_empty EXCEPT
                !.table = fc.table,
                !.storage = upload_files(fc.storage, files, 1),
                !.uploaded_files = uploaded_files_of(files),
                !.step = "uploaded"]
    /\ UNCHANGED <<engine, rt, ap, rs, ma, ws, cf, lc>>

AnalyzeFiles ==
    /\ fc.step = "uploaded"
    /\ \E fail_at \in 0..Len(fc.uploaded_files), kind \in AnalysisFailures :
         fc' = analyze_files_node(fc, fail_at, kind)
    /\ UNCHANGED <<engine, rt, ap, rs, ma, ws, cf, lc>>

Insight ==
    /\ fc.step = "analyzed"
    /\ \E llm_ok \in BOOLEAN, fail_at \in 0..Len(fc.uploaded_files) :
         fc' = insight_node(fc, llm_ok, fail_at)
    /\ UNCHANGED <<engine, rt, ap, rs, ma, ws, cf, lc>>

NextCache ==
    \/ \E files \in FileLists : CacheSession(files)
    \/ AnalyzeFiles
    \/ Insight

SpecCache == Init /\ [][NextCache]_vars

\* C15: for an artifact whose record was in the cache with a file_type and
\* non-empty file_metadata when analyze_files looked it up, the step neither
\* downloads nor analyses it, and the analysis it hands on is the stored
\* one, marked as cached.
C15_CachedArtifactNotReanalyzed ==
    \A i \in 1..Len(fc.log) :
        LET e == fc.log[i]
            r == e.record_before
        IN  (r.present /\ r.file_type # NONE /\ r.file_metadata # NONE) =>
              /\ e.hit
              /\ ~e.downloaded
              /\ ~e.analyzed
              /\ fc.table[e.storage_path].file_metadata = r.file_metadata
              /\ Len(fc.file_analyses) >= i =>
                    /\ fc.file_analyses[i].cached
                    /\ fc.file_analyses[i].of = r.file_metadata
                    /\ fc.file_analyses[i].type = r.file_type

\* A session has analysed a file whose record, written by an earlier
\* session, had no insights yet
C15_Witness ==
    /\ fc.step = "analyzed"
    /\ Len(fc.log) > 0
    /\ fc.log[1].record_before.present
    /\ fc.log[1].record_before.file_type # NONE
    /\ ~fc.log[1].record_before.insights_cache.present
    /\ Len(fc.file_analyses) > 0

\* Both steps of the session have run and every input file was a cache hit
AllInputsWereHits ==
    /\ fc.step = "insight_done"
    /\ Len(fc.uploaded_files) > 0
    /\ Len(fc.log) = Len(fc.uploaded_files)
    /\ \A i \in 1..Len(fc.log) : fc.log[i].hit

\* C16: in a session in which every input artifact is a cache hit, the
\* insight step does not call generate_insights_and_strategy and
\* current_strategy is a strategy that was in the cache.
C16_NoGenerationWhenAllHits ==
    AllInputsWereHits =>
        /\ fc.llm_calls = 0
        /\ \E i \in 1..Len(fc.log) :
              /\ fc.log[i].record_before.insights_cache.present
              /\ fc.current_strategy =
                    fc.log[i].record_before.insights_cache.strategy

\* C17: once analyze_files and insight have completed for the input
\* artifacts of a session, each of them has a cache record with file_type,
\* file_metadata and insights_cache.
C17_ResultsWrittenBack ==
    fc.step = "insight_done" =>
        \A i \in 1..Len(fc.uploaded_files) :
            LET r == fc.table[fc.uploaded_files[i].storage_path]
            IN  /\ cache_hit(r)
                /\ r.insights_cache.present

\* C18: the cache is keyed by the content of the artifact: a lookup is a
\* hit only if the stored result is the result for the content of the
\* artifact being processed.
C18_KeyedByContent ==
    \A i \in 1..Len(fc.log) :
        fc.log[i].hit =>
            fc.log[i].record_before.file_metadata = fc.log[i].content

(***************************************************************************)
(* append_to_array_field (src/src/database/persistence.py) called by       *)
(* concurrent flow instances on the same project and field.  Every request *)
(* to the database is one step: load_project, the RPC, the conditional     *)
(* UPDATE of the fallback.  The decorator re-runs the whole function.      *)
(***************************************************************************)

\* The trigger of the projects table: a write stamps the row with the time
\* of the write, which is later than every time stamped before
updated_at_trigger(row, now) == [row EXCEPT !.updated_at = now]

\* An UPDATE that matches the row whatever its updated_at
matches_any_token(row, updated_at) == TRUE

\* .eq("project_id", project_id).eq("updated_at", updated_at)
update_matches(row, updated_at) == row.updated_at = updated_at

\* A wrapper that re-runs only the conditional write, with the project it
\* read on the first attempt
append_failed_without_reload(caller) ==
    IF is_last_attempt(caller.attempt, persistence_max_attempts)
    THEN [caller EXCEPT !.pc = "RetryError"]
    ELSE [caller EXCEPT
            !.pc = "write",
            !.attempt = @ + 1,
            !.sleeps = Append(@, exponential_backoff(caller.attempt,
                                                     persistence_base_delay,
                                                     default_max_delay))]

\* The wrapper around append_to_array_field caught the exception of one
\* attempt (every exception is caught: exceptions=(Exception,))
append_failed(caller) ==
    IF is_last_attempt(caller.attempt, persistence_max_attempts)
    THEN [caller EXCEPT !.pc = "RetryError"]
    ELSE [caller EXCEPT
            !.pc = "load",
            !.attempt = @ + 1,
            !.sleeps = Append(@, exponential_backoff(caller.attempt,
                                                     persistence_base_delay,
                                                     default_max_delay))]

\* append_to_array_field is called
AppendCall(c) ==
    /\ ap.callers[c].pc = "idle"
    /\ ap' = [ap EXCEPT !.callers[c].pc = "load"]
    /\ UNCHANGED <<engine, rt, fc, rs, ma, ws, cf, lc>>

\* project = ProjectPersistence.load_project(project_id)
AppendLoad(c) ==
    /\ ap.callers[c].pc = "load"
    /\ ap' = [ap EXCEPT !.callers[c].project = ap.row,
                        !.callers[c].loads = Append(@, ap.row),
                        !.callers[c].pc = "rpc"]
    /\ UNCHANGED <<engine, rt, fc, rs, ma, ws, cf, lc>>

\* db.rpc('append_to_project_array', ...): the append is done by the
\* database in one statement, or the call raises and the fallback follows
AppendRpc(c) ==
    /\ ap.callers[c].pc = "rpc"
    /\ \E ok \in BOOLEAN :
         ap' = IF ok
               THEN [ap EXCEPT
                       !.row = updated_at_trigger(
                                   [@ EXCEPT !.items =
                                       Append(@, ap.callers[c].item)],
                                   ap.clock + 1),
                       !.clock = @ + 1,
                       !.callers[c].via = Append(@, "rpc"),
                       !.callers[c].pc = "returned"]
               ELSE [ap EXCEPT !.callers[c].pc = "write"]
    /\ UNCHANGED <<engine, rt, fc, rs, ma, ws, cf, lc>>

\* The fallback: the array that was read plus the item is written if the
\* row still has the updated_at that was read; no row matched is raised as
\* "Concurrent modification detected" and re-raised to the decorator
AppendWrite(c) ==
    /\ ap.callers[c].pc = "write"
    /\ LET caller == ap.callers[c]
           current_array == Append(caller.project.items, caller.item)
           tried == [caller EXCEPT
                       !.write_tokens = Append(@, caller.project.updated_at)]
       IN  ap' = IF update_matches(ap.row, caller.project.updated_at)
                 THEN [ap EXCEPT
                         !.row = updated_at_trigger(
                                     [@ EXCEPT !.items = current_array],
                                     ap.clock + 1),
                         !.clock = @ + 1,
                         !.callers[c] = [tried EXCEPT
                                           !.via = Append(@, "fallback"),
                                           !.pc = "returned"]]
                 ELSE [ap EXCEPT
                         !.callers[c] =
                             append_failed([tried EXCEPT
                                              !.conflicts = @ + 1])]
    /\ UNCHANGED <<engine, rt, fc, rs, ma, ws, cf, lc>>

\* The most writes of other fields of the row made while the callers run
MaxOtherWrites == 3

\* update_project_field / save_project by another process: another field of
\* the row is written, and the trigger stamps the row
OtherWrite ==
    /\ ap.other_writes < MaxOtherWrites
    /\ \E c \in Appenders : ap.callers[c].pc \notin {"idle", "returned", "RetryError"}
    /\ ap' = [ap EXCEPT !.row = updated_at_trigger(@, ap.clock + 1),
                        !.clock = @ + 1,
                        !.other_writes = @ + 1]
    /\ UNCHANGED <<engine, rt, fc, rs, ma, ws, cf, lc>>

NextAppend ==
    \/ \E c \in Appenders :
          \/ AppendCall(c)
          \/ AppendLoad(c)
          \/ AppendRpc(c)
          \/ AppendWrite(c)
    \/ OtherWrite

\* The longest array the field holds before the callers start
MaxInitialItems == 2

\* The arrays the field can hold before the callers start
InitialArrays ==
    UNION {[1..n -> {"w"}] : n \in 0..MaxInitialItems}

InitAppend ==
    /\ st = create_initial_state
    /\ db = fresh_project
    /\ pc = "idle"
    /\ phase = "enter"
    /\ run = NewRun
    /\ rt = retry_idle
    /\ fc = cache_empty
    /\ ws = web_search_idle
    /\ cf = flows_idle
    /\ lc = load_context_idle
    /\ rs = resolver_idle
    /\ ma = meta_client
    /\ \E items \in InitialArrays :
         ap = [append_idle EXCEPT !.row.items = items,
                                  !.initial_items = items]

SpecAppend == InitAppend /\ [][NextAppend]_vars

\* Both callers are through, no one else wrote the row, and the first
\* conditional write of each was conditioned on the same updated_at: they
\* raced on the same token
RacedOnTheSameToken ==
    /\ ap.other_writes = 0
    /\ \A c \in Appenders : ap.callers[c].pc \in {"returned", "RetryError"}
    /\ \A c \in Appenders : ap.callers[c].write_tokens # <<>>
    /\ ap.callers["s1"].write_tokens[1] = ap.callers["s2"].write_tokens[1]

JustAutosaved ==
    /\ run.event = "done"
    /\ run.node \in CheckpointTracked \ {"save"}

\* The edge the scheduler follows out of the step that has just returned
EdgeOutOf(n) ==
    IF n = "load_context"
    THEN LoadContextEnds(should_skip_to_resume_point(st))
    ELSE FixedEdge(n)

\* C21: autosave failure is non-fatal: if the autosave after a step that
\* returned fails (the retry wrapper's attempts are exhausted), the step is
\* completed in the in-memory state, no exception reaches the scheduler and
\* the flow is at the step the edge out of the completed step leads to.
C21_AutosaveFailureNonFatal ==
    (JustAutosaved /\ ~run.saved) =>
        /\ run.save_error.cls = "RetryError"
        /\ st.last_completed_node = node_name(run.node)
        /\ Contains(st.completed_nodes, node_name(run.node))
        /\ st.current_executing_node = NONE
        /\ st.errors = run.before.errors
             \/ run.node \in CatchesOwnErrors
        /\ ~run.raised
        /\ pc = EdgeOutOf(run.node)

\* The autosave after discovery failed and the flow is at data_collection
C21_Witness ==
    /\ JustAutosaved
    /\ ~run.saved
    /\ run.node = "discovery"
    /\ pc = "data_collection"
    /\ db.last_completed_node # "discovery"

\* The first save of the autosave raised an error whose message names
\* knowledge_facts
FirstSaveNamedKnowledgeFacts ==
    \E i \in 1..Len(run.save_error.msg) :
        run.save_error.msg[i] = "knowledge_facts"

\* C22: if the autosave after a successful step fails with an error naming
\* knowledge_facts, the tracker saves once more with knowledge_facts
\* omitted and every other key of the snapshot, the four checkpoint fields
\* among them, as in the first snapshot; after any other save error there
\* is no second save.
C22_KnowledgeFactsFallback ==
    JustAutosaved =>
        /\ FirstSaveNamedKnowledgeFacts =>
              /\ run.save_attempts = <<TRUE, FALSE>>
              /\ run.saved =>
                    /\ "knowledge_facts" \notin
                          DOMAIN state_to_project_dict(st, FALSE)
                    /\ \A f \in DOMAIN state_to_project_dict(st, TRUE) \
                                {"knowledge_facts"} :
                          db[f] = state_to_project_dict(st, TRUE)[f]
                    /\ Checkpoint(db) = Checkpoint(st)
        /\ (run.save_error.cls # NONE /\ ~FirstSaveNamedKnowledgeFacts) =>
              /\ run.save_attempts = <<TRUE>>
              /\ ~run.saved

\* The fallback saved the checkpoint of discovery while the row kept the
\* knowledge_facts it had
C22_Witness ==
    /\ JustAutosaved
    /\ FirstSaveNamedKnowledgeFacts
    /\ run.saved
    /\ run.node = "discovery"
    /\ st.knowledge_facts = "facts"
    /\ db.knowledge_facts = "empty"
    /\ db.last_completed_node = "discovery"

(***************************************************************************)
(* What a failed session leaves in the store, and the end of a run         *)
(***************************************************************************)

\* C23: after a step failed and the failed state was saved, the project row
\* holds the last_completed_node, the completed_nodes and the accumulated
\* error messages of the failed session.
C23_FailedSessionPersisted ==
    (TrackedStepFailed /\ run.saved) =>
        /\ db.last_completed_node = st.last_completed_node
        /\ db.completed_nodes = st.completed_nodes
        /\ "errors" \in DOMAIN db
        /\ db.errors = st.errors

\* C24: when the terminal step completes, the state the run returns has
\* flow_status = completed, and while the run is at an earlier step its
\* flow_status is not completed.
C24_CompletedOnlyAtTheEnd ==
    /\ pc = "END" => st.flow_status = "completed"
    /\ pc \in GraphNodes => st.flow_status # "completed"
    /\ pc = "aborted" => st.flow_status # "completed"

\* A run went through the router to the terminal step and ended
C24_Witness ==
    /\ pc = "END"
    /\ st.flow_status = "completed"
    /\ Contains(run.executed, "router")
    /\ run.executed[Len(run.executed)] = "save"

(***************************************************************************)
(* The checkpoint tracker around the steps, called in any order: what      *)
(* track_node does to completed_nodes does not depend on the graph.        *)
(***************************************************************************)

\* The tracked steps called here
TrackerSteps ==
    {"load_context", "discovery", "user_input", "data_collection", "save"}

\* A tracked step is called on the state and returns; the tracker records
\* it and autosaves (save_state_node saves in its body)
TrackedCall(n) ==
    /\ n \in TrackerSteps
    /\ LET s0 == track_enter(st, node_name(n))
           s1 == IF n = "load_context" THEN load_context_node(s0, db)
                 ELSE node_body(n, s0, "ok")
           s2 == track_success(s1, node_name(n))
       IN  /\ st' = s2
           /\ db' = save_project(db, state_to_project_dict(
                                         IF n = "save" THEN s1 ELSE s2, TRUE))
    /\ UNCHANGED <<pc, phase, run>>
    /\ UNCHANGED parts

\* A new session: create_initial_state
TrackedSession(restart) ==
    /\ st' = [create_initial_state EXCEPT !.force_restart = restart]
    /\ UNCHANGED <<db, pc, phase, run>>
    /\ UNCHANGED parts

NextTracker ==
    \/ \E n \in TrackerSteps : TrackedCall(n)
    \/ \E restart \in BOOLEAN : TrackedSession(restart)

SpecTracker == Init /\ [][NextTracker]_vars

NoDuplicates(seq) ==
    \A i \in 1..Len(seq) : \A j \in 1..Len(seq) : seq[i] = seq[j] => i = j

\* C25: completed_nodes never contains a step name twice, in memory or in
\* the store, whatever the order in which tracked steps complete, also
\* when a step completes again in a later session and when user_input
\* completes by way of the tracked discovery step.
C25_NoDuplicateCompletedNodes ==
    /\ NoDuplicates(st.completed_nodes)
    /\ NoDuplicates(db.completed_nodes)

\* user_input has completed after discovery had, in a session that loaded
\* a history in which both were already recorded
C25_Witness ==
    /\ st.last_completed_node = "user_input"
    /\ st.project_loaded
    /\ Contains(st.completed_nodes, "discovery")
    /\ Contains(st.completed_nodes, "user_input")
    /\ Contains(st.completed_nodes, "load_context")
    /\ st.completed_nodes[Len(st.completed_nodes)] # "user_input"

----------------------------------------------------------------------------
\* The resume resolver called on its own: every last_completed_node the
\* checkpoint column can hold (a registered name, the tracker's "save_state", a
\* name no step has, None) with every decision and phase of the state

ResumeInputs == GraphNodes \cup {"save_state", "unknown_step", NONE}

\* The names get_resume_node has a branch for
RecognizedSteps == GraphNodes \cup {"save_state"}

resume_state(decision, current_phase) ==
    [create_initial_state EXCEPT !.decision = decision,
                                 !.current_phase = current_phase,
                                 !.is_resuming = TRUE]

InitResolver ==
    /\ st = create_initial_state
    /\ db = fresh_project
    /\ pc = "idle"
    /\ phase = "idle"
    /\ run = NewRun
    /\ rt = retry_idle
    /\ fc = cache_empty
    /\ ws = web_search_idle
    /\ cf = flows_idle
    /\ lc = load_context_idle
    /\ ap = append_idle
    /\ ma = meta_client
    /\ \E last \in ResumeInputs, decision \in Decisions, current_phase \in Phases :
          rs = [resolver_idle EXCEPT !.last = last, !.decision = decision,
                                     !.current_phase = current_phase]

\* next_node = get_resume_node(last_completed_node, state)
Resolve ==
    /\ ~rs.called
    /\ rs' = [rs EXCEPT
                !.called = TRUE,
                !.result = get_resume_node(rs.last,
                               resume_state(rs.decision, rs.current_phase))]
    /\ UNCHANGED <<engine, rt, fc, ap, ma, ws, cf, lc>>

NextResolver == Resolve

SpecResolver == InitResolver /\ [][NextResolver]_vars

\* C26: get_resume_node returns, for every last_completed_node and every
\* state, the name of a step registered in the graph or None (flow complete),
\* and for a step name it has no branch for it returns "router"
C26_ResolverTotal ==
    rs.called =>
        /\ rs.result \in GraphNodes \cup {NONE}
        /\ rs.last \notin RecognizedSteps => rs.result = "router"

C26_Witness ==
    rs.called /\ rs.last = "unknown_step" /\ rs.result = "router"

\* The steps with one fixed outgoing edge in the graph
FixedEdgeSteps ==
    {"analyze_files", "discovery", "user_input", "data_collection", "insight",
     "campaign_setup", "reflection", "adjustment"}

\* C27: for a step with a single fixed outgoing edge get_resume_node returns
\* that edge's target, for load_context the target of its normal path, and
\* for the terminal step (recorded as save or save_state) None
C27_ResumeFollowsFixedEdges ==
    rs.called =>
        /\ rs.last \in FixedEdgeSteps => rs.result = FixedEdge(rs.last)
        /\ rs.last = "load_context" => rs.result = LoadContextEnds("normal")
        /\ rs.last \in {"save", "save_state"} =>
              /\ rs.result = NONE
              /\ FixedEdge("save") = "END"

C27_Witness ==
    /\ rs.called
    /\ rs.last = "user_input"
    /\ rs.result = "data_collection"
    /\ FixedEdge(rs.last) = "data_collection"

----------------------------------------------------------------------------
\* C28: with max_attempts = N, the sleep after failed attempt i (zero-indexed)
\* is exactly min(base_delay * 2^i, max_delay); every failed attempt but the
\* last is followed by one sleep, so N failed attempts sleep N-1 times and
\* the final failure raises without sleeping; the delays never decrease and
\* never exceed max_delay.
C28_BackoffDelays ==
    rt.status # "idle" =>
        /\ \A i \in 1..Len(rt.sleeps) :
              /\ rt.sleeps[i] = Min(rt.base_delay * 2^(i - 1), rt.max_delay)
              /\ rt.sleeps[i] <= rt.max_delay
        /\ \A i \in 1..(Len(rt.sleeps) - 1) : rt.sleeps[i] <= rt.sleeps[i + 1]
        /\ Len(rt.sleeps) <= rt.max_attempts - 1
        /\ rt.status = "running" => Len(rt.sleeps) = rt.calls
        /\ rt.status = "RetryError" =>
              /\ rt.calls = rt.max_attempts
              /\ Len(rt.sleeps) = rt.max_attempts - 1

\* Three failed attempts with base_delay 2 and max_delay 3: the second delay
\* is the capped one, and no third sleep follows the last failure
C28_Witness ==
    /\ rt.status = "RetryError"
    /\ rt.max_attempts = 3
    /\ rt.calls = 3
    /\ rt.base_delay = persistence_base_delay
    /\ rt.max_delay = ShortMaxDelay
    /\ rt.sleeps = <<persistence_base_delay, ShortMaxDelay>>

----------------------------------------------------------------------------
\* The item of caller c is in the array of the row
InTheArray(c) ==
    \E i \in 1..Len(ap.row.items) : ap.row.items[i] = item_of(c)

\* C29: a conditional write of append_to_array_field that matches no row is
\* retried: every attempt conditions its write on the updated_at it read
\* itself, and the token of a retry is later than the one that conflicted
\* (the record was read again); a conflict short of the last attempt leaves
\* the call running; at most 3 attempts are made; and when all of them
\* conflict the call fails and the caller's item is not in the array.
C29_ConflictIsRetried ==
    \A c \in Appenders :
        LET caller == ap.callers[c] IN
        /\ caller.attempt + 1 <= persistence_max_attempts
        /\ Len(caller.write_tokens) <= persistence_max_attempts
        /\ Len(caller.loads) <= persistence_max_attempts
        /\ \A i \in 1..Len(caller.write_tokens) :
              /\ i <= Len(caller.loads)
              /\ caller.write_tokens[i] = caller.loads[i].updated_at
        /\ \A i \in 1..(Len(caller.write_tokens) - 1) :
              caller.write_tokens[i] < caller.write_tokens[i + 1]
        /\ caller.pc \in {"rpc", "write", "returned"} =>
              /\ Len(caller.loads) = caller.attempt + 1
              /\ caller.project = caller.loads[caller.attempt + 1]
        /\ (caller.conflicts > 0 /\ caller.conflicts < persistence_max_attempts) =>
              /\ caller.pc # "RetryError"
              /\ caller.attempt = caller.conflicts
        /\ caller.conflicts = persistence_max_attempts =>
              /\ caller.pc = "RetryError"
              /\ ~InTheArray(c)

\* A caller whose three conditional writes all met a row stamped since it
\* read it
C29_Witness ==
    \E c \in Appenders :
        /\ ap.callers[c].pc = "RetryError"
        /\ ap.callers[c].conflicts = persistence_max_attempts
        /\ Len(ap.callers[c].loads) = persistence_max_attempts
        /\ ~InTheArray(c)

(***************************************************************************)
(* The Meta ads client (src/src/integrations/meta_ads.py): one client, its *)
(* calls of _make_api_call, and the HTTP responses the requests get.       *)
(***************************************************************************)

\* The most calls of _make_api_call made on one client
MaxMetaCalls == 2

\* if self.retry_count > 5
meta_max_retries == 5

\* backoff = (2 ** self.retry_count) * 60
meta_backoff_seconds == 60

\* if error_code in [17, 613]
rate_limit_codes == {17, 613}

\* jitter = time.time() % 10, to the second: the least and the greatest
Jitters == {0, 9}

\* What requests.request comes to: a response with a status code and, for an
\* error, the error code of its body; or a RequestException
Responses ==
    {[kind |-> "response", status_code |-> 200, error_code |-> 0, body |-> "id_1"],
     [kind |-> "response", status_code |-> 400, error_code |-> 17, body |-> "error"],
     [kind |-> "response", status_code |-> 400, error_code |-> 613, body |-> "error"],
     [kind |-> "response", status_code |-> 400, error_code |-> 100, body |-> "error"],
     [kind |-> "RequestException", status_code |-> 0, error_code |-> 0, body |-> NONE]}

\* A cap that counts the first request among the retries
retries_exhausted_one_early(retry_count) == retry_count >= meta_max_retries

\* if self.retry_count > 5
retries_exhausted(retry_count) == retry_count > meta_max_retries

\* _handle_rate_limit up to its recursive call: the counter of the client is
\* incremented; past the cap MetaAdsError is raised, otherwise the client
\* sleeps and the request is made again
handle_rate_limit(m, jitter) ==
    LET retry_count == m.retry_count + 1
        backoff == (2^retry_count) * meta_backoff_seconds
        wait_time == backoff + jitter
    IN  IF retries_exhausted(retry_count)
        THEN [m EXCEPT !.retry_count = retry_count,
                       !.status = "raised",
                       !.error = "Rate limit exceeded"]
        ELSE [m EXCEPT !.retry_count = retry_count,
                       !.waits = Append(@, wait_time),
                       !.status = "requesting"]

\* _make_api_call from the request on: resp is what requests.request comes to
make_api_call(m, resp, jitter) ==
    LET m1 == [m EXCEPT !.requests = @ + 1, !.responses = Append(@, resp)]
    IN  IF resp.kind = "RequestException"
        THEN [m1 EXCEPT !.status = "raised", !.error = "Network error"]
        ELSE IF resp.status_code >= 400
        THEN IF resp.error_code \in rate_limit_codes
             THEN handle_rate_limit(m1, jitter)
             ELSE [m1 EXCEPT !.status = "raised", !.error = "Meta API Error"]
        ELSE [m1 EXCEPT !.status = "returned", !.result = resp.body]

InitMeta ==
    /\ st = create_initial_state
    /\ db = fresh_project
    /\ pc = "idle"
    /\ phase = "idle"
    /\ run = NewRun
    /\ rt = retry_idle
    /\ fc = cache_empty
    /\ ws = web_search_idle
    /\ cf = flows_idle
    /\ lc = load_context_idle
    /\ ap = append_idle
    /\ rs = resolver_idle
    /\ \E dry_run \in BOOLEAN : ma = MetaAdsAPI(dry_run)

\* _make_api_call is called by one of the client's operations; in dry-run
\* mode it returns a mock id without a request
MetaApiCall ==
    /\ ma.status # "requesting"
    /\ ma.calls < MaxMetaCalls
    /\ ma' = [ma EXCEPT
                !.calls = @ + 1,
                !.earlier = IF ma.calls = 0 THEN @
                            ELSE Append(@, [status |-> ma.status,
                                            requests |-> ma.requests]),
                !.requests = 0,
                !.responses = <<>>,
                !.waits = <<>>,
                !.error = NONE,
                !.result = IF ma.dry_run THEN "mock_id" ELSE NONE,
                !.status = IF ma.dry_run THEN "returned" ELSE "requesting"]
    /\ UNCHANGED <<engine, rt, fc, ap, rs, ws, cf, lc>>

\* The request is made and answered
MetaRequest ==
    /\ ma.status = "requesting"
    /\ \E resp \in Responses, jitter \in Jitters :
         ma' = make_api_call(ma, resp, jitter)
    /\ UNCHANGED <<engine, rt, fc, ap, rs, ws, cf, lc>>

NextMeta ==
    \/ MetaApiCall
    \/ MetaRequest

SpecMeta == InitMeta /\ [][NextMeta]_vars

\* The response is a rate-limit error
IsRateLimit(resp) ==
    /\ resp.kind = "response"
    /\ resp.status_code = 400
    /\ resp.error_code \in {17, 613}

\* The response is a success
IsSuccess(resp) == resp.kind = "response" /\ resp.status_code = 200

\* The first call on a fresh client, answered so far by rate-limit errors
\* with at most a success at the end
OnlyRateLimited ==
    /\ ~ma.dry_run
    /\ ma.calls = 1
    /\ ma.responses # <<>>
    /\ \A i \in 1..Len(ma.responses) :
          IsRateLimit(ma.responses[i]) \/ IsSuccess(ma.responses[i])

\* C30: a single API call on a fresh client that is answered by rate-limit
\* errors (code 17 or 613) repeats the request at most 5 times: up to the
\* fifth rate-limit response it goes on, one wait per response, and the
\* sixth raises MetaAdsError; a success on the first request or on any
\* retry is returned to the caller and no error is raised.
C30_RateLimitRetries ==
    OnlyRateLimited =>
        LET n == Len(ma.responses)
            last == ma.responses[n]
        IN  /\ ma.requests = n
            /\ n <= 6
            /\ (IsRateLimit(last) /\ n <= 5) =>
                  /\ ma.status = "requesting"
                  /\ Len(ma.waits) = n
                  /\ ma.error = NONE
            /\ (IsRateLimit(last) /\ n = 6) =>
                  /\ ma.status = "raised"
                  /\ ma.error = "Rate limit exceeded"
                  /\ Len(ma.waits) = 5
            /\ IsSuccess(last) =>
                  /\ ma.status = "returned"
                  /\ ma.result = last.body
                  /\ ma.error = NONE

\* Six rate-limit responses in one call on a fresh client: five retries,
\* then the error
C30_Witness ==
    /\ OnlyRateLimited
    /\ Len(ma.responses) = 6
    /\ IsRateLimit(ma.responses[6])
    /\ ma.status = "raised"

----------------------------------------------------------------------------
\* A later call on a client whose earlier calls all returned, at least one of
\* them after rate-limit retries, answered so far by rate-limit errors only
LaterCallRateLimited ==
    /\ ~ma.dry_run
    /\ ma.calls >= 2
    /\ \A i \in 1..Len(ma.earlier) : ma.earlier[i].status = "returned"
    /\ \E i \in 1..Len(ma.earlier) : ma.earlier[i].requests > 1
    /\ ma.responses # <<>>
    /\ \A i \in 1..Len(ma.responses) : IsRateLimit(ma.responses[i])

\* C37: the rate-limit retry budget is per request: a later call on a client
\* whose earlier calls succeeded after rate-limit retries still has 5
\* retries, so its first five rate-limit responses are each followed by
\* another request and only the sixth raises.
C37_BudgetPerRequest ==
    LaterCallRateLimited =>
        /\ Len(ma.responses) <= 5 => ma.status = "requesting"
        /\ ma.status = "raised" => Len(ma.responses) = 6

\* C38: the waits before successive rate-limit retries of a request are
\* 60s, 120s, 240s, ...: the wait before retry i is 60 * 2^(i-1) seconds
\* plus a jitter of less than 10 seconds.
C38_WaitsDoubleFromSixty ==
    (~ma.dry_run /\ ma.calls = 1) =>
        \A i \in 1..Len(ma.waits) :
            /\ ma.waits[i] >= 60 * 2^(i - 1)
            /\ ma.waits[i] < 60 * 2^(i - 1) + 10

(***************************************************************************)
(* parallel_web_search (src/src/agent/nodes.py): the calling thread, the   *)
(* two futures it submits to a ThreadPoolExecutor(max_workers=2), and the  *)
(* as_completed loop that collects them.                                   *)
(***************************************************************************)

\* result.get("results", []): no results, or some
SearchResults == {"no_results", "results"}

Finished(future) == future.status \in {"ok", "raised"}

search_failed_message(k) == <<"Web search failed", k>>

\* A loop body that calls future.result() outside any try: the exception of
\* a failed search leaves the loop for the outer except, and the with
\* block waits for the workers on the way out
collect_future_unguarded(w, k) ==
    IF w.futures[k].status = "ok"
    THEN [w EXCEPT !.facts[k] = w.futures[k].result,
                   !.collected = Append(@, k)]
    ELSE [w EXCEPT !.messages = Append(@, <<"Parallel web search skipped">>),
                   !.collected = Append(@, k),
                   !.pc = "joining"]

\* The body of the as_completed loop for the finished future of search k
collect_future(w, k) ==
    IF w.futures[k].status = "ok"
    THEN [w EXCEPT !.facts[k] = w.futures[k].result,
                   !.collected = Append(@, k)]
    ELSE [w EXCEPT !.messages = Append(@, search_failed_message(k)),
                   !.collected = Append(@, k)]

InitWebSearch ==
    /\ st = create_initial_state
    /\ db = fresh_project
    /\ pc = "idle"
    /\ phase = "idle"
    /\ run = NewRun
    /\ rt = retry_idle
    /\ fc = cache_empty
    /\ ap = append_idle
    /\ rs = resolver_idle
    /\ ma = meta_client
    /\ cf = flows_idle
    /\ lc = load_context_idle
    /\ \E tavily_key \in BOOLEAN, product \in BOOLEAN, client_ok \in BOOLEAN :
          ws = [web_search_idle EXCEPT !.tavily_key = tavily_key,
                                       !.product = product,
                                       !.client_ok = client_ok]

\* parallel_web_search is called: it returns no facts without a key or a
\* product, logs and returns if the client cannot be made, and otherwise
\* submits one future per search
WebSearchCall ==
    /\ ws.pc = "idle"
    /\ ws' = IF ~ws.tavily_key \/ ~ws.product
             THEN [ws EXCEPT !.pc = "returned"]
             ELSE IF ~ws.client_ok
             THEN [ws EXCEPT !.pc = "returned",
                             !.messages =
                                 Append(@, <<"Parallel web search skipped">>)]
             ELSE [ws EXCEPT !.pc = "collecting",
                             !.futures = [k \in Searches |->
                                            [status |-> "pending",
                                             result |-> NONE]]]
    /\ UNCHANGED <<engine, rt, fc, ap, rs, ma, cf, lc>>

\* A worker thread takes the future of search k
WorkerStart(k) ==
    /\ ws.futures[k].status = "pending"
    /\ ws' = [ws EXCEPT !.futures[k].status = "running"]
    /\ UNCHANGED <<engine, rt, fc, ap, rs, ma, cf, lc>>

\* tavily.search returns or raises in the worker thread
WorkerFinish(k) ==
    /\ ws.futures[k].status = "running"
    /\ \/ \E r \in SearchResults :
            ws' = [ws EXCEPT !.futures[k] = [status |-> "ok", result |-> r]]
       \/ ws' = [ws EXCEPT !.futures[k].status = "raised"]
    /\ UNCHANGED <<engine, rt, fc, ap, rs, ma, cf, lc>>

\* as_completed yields a finished future that was not yet yielded
Collect(k) ==
    /\ ws.pc = "collecting"
    /\ Finished(ws.futures[k])
    /\ ~Contains(ws.collected, k)
    /\ ws' = collect_future(ws, k)
    /\ UNCHANGED <<engine, rt, fc, ap, rs, ma, cf, lc>>

\* as_completed is exhausted: the loop ends
LoopExit ==
    /\ ws.pc = "collecting"
    /\ \A k \in Searches : Contains(ws.collected, k)
    /\ ws' = [ws EXCEPT !.pc = "joining"]
    /\ UNCHANGED <<engine, rt, fc, ap, rs, ma, cf, lc>>

\* The with block is left: executor.shutdown(wait=True) returns once every
\* worker is through, and the function returns facts
Join ==
    /\ ws.pc = "joining"
    /\ \A k \in Searches : Finished(ws.futures[k])
    /\ ws' = [ws EXCEPT !.pc = "returned"]
    /\ UNCHANGED <<engine, rt, fc, ap, rs, ma, cf, lc>>

NextWebSearch ==
    \/ WebSearchCall
    \/ \E k \in Searches :
          \/ WorkerStart(k)
          \/ WorkerFinish(k)
          \/ Collect(k)
    \/ LoopExit
    \/ Join

SpecWebSearch == InitWebSearch /\ [][NextWebSearch]_vars

\* The searches were submitted
FannedOut == \A k \in Searches : ws.futures[k].status # "not_submitted"

\* C31: parallel_web_search returns only after every search it submitted has
\* finished; a search that failed does not abort its sibling: the result of
\* every search that succeeded is in the returned facts, every search that
\* failed is recorded as a message, and nothing is raised.
C31_SearchesJoinedAndIsolated ==
    (ws.pc = "returned" /\ FannedOut) =>
        /\ ~ws.raised
        /\ \A k \in Searches :
              /\ Finished(ws.futures[k])
              /\ ws.futures[k].status = "ok" =>
                    ws.facts[k] = ws.futures[k].result
              /\ ws.futures[k].status = "raised" =>
                    /\ ws.facts[k] = NONE
                    /\ Contains(ws.messages, search_failed_message(k))

\* The failed search was collected first, and the sibling's result came back
C31_Witness ==
    /\ ws.pc = "returned"
    /\ ws.futures["competitors"].status = "raised"
    /\ ws.futures["benchmarks"].status = "ok"
    /\ ws.collected = <<"competitors", "benchmarks">>
    /\ ws.facts["benchmarks"] = "results"

(***************************************************************************)
(* The router's conditional edge and the scheduler's order of steps        *)
(***************************************************************************)

\* C32: in every reachable state at the router's conditional edge, on
\* resumed and non-resumed runs alike and whatever decision the router
\* comes to, the label get_next_node returns is one of the eight
\* destinations registered for that edge.
C32_RouterLabelRegistered ==
    pc = "router" =>
        \A d \in Decisions : get_next_node(router_node(st, d)) \in RouterEnds

\* A tracked step has returned to the scheduler and its body logged an
\* error of its own while it ran
BodyLoggedAnError ==
    /\ run.event = "done"
    /\ run.node \in CatchesOwnErrors \cup {"save"}
    /\ Len(st.errors) = Len(run.before.errors) + 1
    /\ st.errors[Len(st.errors)] = body_error_message(run.node)

\* C33: a step is marked completed and the flow advances only if the step's
\* work succeeded: when the body of a step records an error in the error
\* log, the step is not added to completed_nodes, is not the
\* last_completed_node, and flow_status is failed.
C33_ErrorMeansNotCompleted ==
    BodyLoggedAnError =>
        /\ st.last_completed_node # node_name(run.node)
        /\ ~Contains(st.completed_nodes, node_name(run.node))
        /\ st.flow_status = "failed"

----------------------------------------------------------------------------
\* insight_node has made the generation call in this session
GenerationCalled == fc.step = "insight_done" /\ fc.llm_calls > 0

\* C35: whenever insight_node makes the generation call, the raw data of
\* every artifact it classifies as new (not served from cached insights) was
\* loaded in the same session, also in a session that follows an
\* interruption between analyze_files and insight.
C35_NewArtifactsHaveTheirData ==
    GenerationCalled =>
        \A i \in 1..Len(fc.file_analyses) :
            IsNewFile(fc.file_analyses[i]) =>
                \E j \in 1..Len(fc.file_analyses) :
                    /\ fc.file_analyses[j].file_path = fc.file_analyses[i].file_path
                    /\ fc.file_analyses[j].data # NONE

----------------------------------------------------------------------------
\* A persisted checkpoint whose completed_nodes holds both analyze_files and
\* router: the flow was past the router and discovery when it stopped.  The
\* row is given: it is the content of the store when the session starts.
checkpoint_past_router ==
    [fresh_project EXCEPT
        !.last_completed_node = "discovery",
        !.completed_nodes =
            <<"load_context", "analyze_files", "router", "discovery">>,
        !.flow_status = "in_progress"]

InitPastRouter ==
    /\ st = create_initial_state
    /\ db = checkpoint_past_router
    /\ pc = "idle"
    /\ phase = "enter"
    /\ run = NewRun
    /\ rt = retry_idle
    /\ fc = cache_empty
    /\ ws = web_search_idle
    /\ cf = flows_idle
    /\ lc = load_context_idle
    /\ ap = append_idle
    /\ rs = resolver_idle
    /\ ma = meta_client

SpecPastRouter == InitPastRouter /\ [][Next]_vars

\* The session loaded that checkpoint, without force_restart
FromPastRouter ==
    /\ run.has_loaded /\ ~run.restart
    /\ run.loaded = Checkpoint(checkpoint_past_router)

no_project == [fresh_project EXCEPT !.exists = FALSE]

ProjectRows ==
    {no_project} \cup
    {[fresh_project EXCEPT
         !.flow_status = f,
         !.last_completed_node = l,
         !.completed_nodes = IF l = NONE THEN <<>> ELSE <<l>>] :
       f \in FlowStatuses,
       l \in {node_name(n) : n \in CheckpointTracked} \cup {NONE}}

InitLoadContext ==
    /\ st = create_initial_state
    /\ db = fresh_project
    /\ pc = "idle"
    /\ phase = "idle"
    /\ run = NewRun
    /\ rt = retry_idle
    /\ fc = cache_empty
    /\ ap = append_idle
    /\ rs = resolver_idle
    /\ ma = meta_client
    /\ ws = web_search_idle
    /\ cf = flows_idle
    /\ \E p \in ProjectRows, force_restart \in BOOLEAN :
          lc = [load_context_idle EXCEPT !.project_data = p,
                                         !.force_restart = force_restart]

\* load_context_node(state) on the state run_command creates
CallLoadContext ==
    /\ ~lc.called
    /\ lc' = [lc EXCEPT
                !.called = TRUE,
                !.result =
                    load_context_node(
                        [create_initial_state EXCEPT
                            !.force_restart = lc.force_restart],
                        lc.project_data)]
    /\ UNCHANGED <<engine, rt, fc, ap, rs, ma, ws, cf>>

NextLoadContext == CallLoadContext

SpecLoadContext == InitLoadContext /\ [][NextLoadContext]_vars

\* C39: after load_context, is_resuming is true if and only if the project
\* record exists, its persisted flow_status is in_progress or failed, its
\* persisted last_completed_node is not null, and force_restart is false.
C39_ResumingIff ==
    lc.called =>
        ( lc.result.is_resuming <=>
            /\ lc.project_data.exists
            /\ lc.project_data.flow_status \in {"in_progress", "failed"}
            /\ lc.project_data.last_completed_node # NONE
            /\ ~lc.force_restart )

\* A failed flow with a checkpoint is resumed
C39_Witness ==
    /\ lc.called
    /\ lc.project_data.flow_status = "failed"
    /\ lc.project_data.last_completed_node = "insight"
    /\ ~lc.force_restart
    /\ lc.result.is_resuming

----------------------------------------------------------------------------
\* The order of the steps of a run by the router's decision (None before
\* the router has decided)
GraphOrder(decision) ==
    <<"load_context", "analyze_files", "router">> \o
    ( IF decision = "reflect"
      THEN <<"reflection", "adjustment", "save">>
      ELSE <<"discovery", "data_collection", "insight", "campaign_setup",
             "save">> )

IsPrefix(s, t) == Len(s) <= Len(t) /\ s = SubSeq(t, 1, Len(s))

\* A session that is not resumed, in which no step has raised, and whose
\* router did not decide to continue
PlainRun ==
    /\ pc # "idle"
    /\ ~st.is_resuming
    /\ ~run.raised
    /\ st.decision # "continue"

\* C40: in a non-resumed run in which no step raises, the steps execute in
\* graph order: load_context, analyze_files, router, then discovery,
\* data_collection, insight, campaign_setup, save for the decision
\* initialize, enrich or an unrecognized one, and reflection, adjustment,
\* save for reflect; the run does not stop at an edge, it ends after save,
\* and no step executes more than once.
C40_GraphOrder ==
    PlainRun =>
        /\ IsPrefix(run.executed, GraphOrder(st.decision))
        /\ pc # "aborted"
        /\ pc = "END" => run.executed = GraphOrder(st.decision)
        /\ pc \in GraphNodes =>
              pc = GraphOrder(st.decision)[Len(run.executed) + 1]

\* A run on the reflect decision has ended after save
C40_Witness ==
    /\ PlainRun
    /\ pc = "END"
    /\ st.decision = "reflect"
    /\ run.executed = <<"load_context", "analyze_files", "router",
                        "reflection", "adjustment", "save">>

(***************************************************************************)
(* Two flow instances on the same project: each loads the row in           *)
(* load_context, appends its entry to config_history in campaign_setup,    *)
(* and writes its whole state to the row in the autosave after every       *)
(* tracked step and in save_state.  A database request (load_project,      *)
(* save_project) is one step; what an instance does to its own AgentState  *)
(* between two requests is part of the step that follows.                  *)
(***************************************************************************)

\* The step after step n on the initialize path of the graph
flow_successor(n) ==
    CASE n = "load_context" -> LoadContextEnds("normal")
      [] n = "router" -> "discovery"
      [] OTHER -> FixedEdge(n)

\* save_project(state_to_project_dict(state)): config_history is one of the
\* columns the UPDATE writes, with the value the state holds
save_config_history(row, state_history) ==
    [row EXCEPT !.config_history = state_history]

\* The config_history the row holds before the instances start: the entries
\* of earlier sessions
InitialHistories ==
    UNION {[1..n -> {<<"config", "earlier">>}] : n \in 0..MaxInitialItems}

InitFlows ==
    /\ st = create_initial_state
    /\ db = fresh_project
    /\ pc = "idle"
    /\ phase = "idle"
    /\ run = NewRun
    /\ rt = retry_idle
    /\ fc = cache_empty
    /\ ap = append_idle
    /\ rs = resolver_idle
    /\ ma = meta_client
    /\ ws = web_search_idle
    /\ lc = load_context_idle
    /\ \E items \in InitialHistories :
          cf = [flows_idle EXCEPT !.row.config_history = items,
                                  !.initial_history = items]

\* An instance is started on the project
FlowStart(f) ==
    /\ cf.flows[f].pc = "idle"
    /\ cf' = [cf EXCEPT !.flows[f].pc = "load_context"]
    /\ UNCHANGED <<engine, rt, fc, ap, rs, ma, ws, lc>>

\* The body of the step the instance is at: load_context reads the row into
\* the state; campaign_setup appends the instance's entry (or fails and
\* logs an error); save_state writes the state and ends the flow; the
\* router is followed by no autosave
FlowBody(f) ==
    /\ cf.flows[f].pc \in GraphNodes
    /\ cf.flows[f].phase = "body"
    /\ LET me == cf.flows[f]
           n == me.pc
       IN  \E ok \in BOOLEAN :
             cf' =
               CASE n = "load_context" ->
                      [cf EXCEPT !.flows[f].config_history =
                                     cf.row.config_history,
                                 !.flows[f].phase = "save"]
                 [] n = "campaign_setup" ->
                      [cf EXCEPT !.flows[f].config_history =
                                     IF ok THEN Append(@, config_of(f)) ELSE @,
                                 !.flows[f].appended = ok,
                                 !.flows[f].phase = "save"]
                 [] n = "router" ->
                      [cf EXCEPT !.flows[f].pc = flow_successor(n)]
                 [] n = "save" ->
                      [cf EXCEPT !.row = IF ok
                                         THEN save_config_history(
                                                  @, me.config_history)
                                         ELSE @,
                                 !.flows[f].failed_saves =
                                     IF ok THEN @ ELSE @ + 1,
                                 !.flows[f].pc = flow_successor(n)]
                 [] OTHER ->
                      [cf EXCEPT !.flows[f].phase = "save"]
    /\ UNCHANGED <<engine, rt, fc, ap, rs, ma, ws, lc>>

\* The tracker's autosave after the step: the state is written to the row,
\* or the save fails and is only logged
FlowAutosave(f) ==
    /\ cf.flows[f].pc \in GraphNodes
    /\ cf.flows[f].phase = "save"
    /\ \E saved \in BOOLEAN :
         cf' = [cf EXCEPT
                  !.row = IF saved
                          THEN save_config_history(
                                   @, cf.flows[f].config_history)
                          ELSE @,
                  !.flows[f].failed_saves = IF saved THEN @ ELSE @ + 1,
                  !.flows[f].pc = flow_successor(@),
                  !.flows[f].phase = "body"]
    /\ UNCHANGED <<engine, rt, fc, ap, rs, ma, ws, lc>>

NextFlows ==
    \E f \in Flows :
        \/ FlowStart(f)
        \/ FlowBody(f)
        \/ FlowAutosave(f)

SpecFlows == InitFlows /\ [][NextFlows]_vars

\* Both instances ran to the end, each appended its entry in campaign_setup,
\* and every save either of them made succeeded
BothFlowsFinished ==
    \A f \in Flows :
        /\ cf.flows[f].pc = "END"
        /\ cf.flows[f].appended
        /\ cf.flows[f].failed_saves = 0

\* C34: when two flow instances for the same project run concurrently and
\* each appends an entry to config_history, the persisted config_history
\* after both have finished contains both entries.
C34_BothEntriesPersisted ==
    BothFlowsFinished =>
        \A f \in Flows : Contains(cf.row.config_history, config_of(f))

====
